---- MODULE Spec2Model ----
(***************************************************************************)
(* Points ledger of the LoyaltyLand application.                           *)
(*                                                                         *)
(* The Firestore database is modelled by three collections: users          *)
(* (one document per user id), transactions (the audit records, in         *)
(* creation order) and businesses (per-organization statistics).  The      *)
(* events collection is static data.                                       *)
(*                                                                         *)
(* A Firestore transaction (runTransaction) is modelled with optimistic    *)
(* concurrency: every read adds the document (or query) to the read set    *)
(* of the calling process, a write committed by another process to a       *)
(* member of that read set marks the transaction stale, and a stale        *)
(* transaction does not commit but re-runs its update function, up to      *)
(* MaxAttempts times.  The reads of one run of an update function are      *)
(* taken in one step: a write between two of them makes the run stale      *)
(* whatever it read, so nothing that commits is lost by it.                *)
(***************************************************************************)
EXTENDS Integers, Sequences, FiniteSets, TLC

VARIABLES
    users,          \* users collection: user id -> document (or NoDoc)
    transactions,   \* transactions collection: sequence of audit records
    businesses,     \* businesses collection: org id -> statistics document
    pc,             \* position of every call
    call,           \* the operation and the arguments of every call
    snap,           \* what the open transaction of a call has read / computed
    rset,           \* read set of the open transaction of a call
    stale,          \* a concurrent commit wrote to the read set
    attempts,       \* number of runs of the update function of the call
    result,         \* what the call returned (or threw) to its caller
    eligibility,    \* what checkEventEligibility answered the caller before
    \* The User Orb (firmware/UserOrb/UserOrb.ino)
    now,            \* time since the device started
    eventCooldowns, \* the entries below trackedEventCount, in array order
    phoneConnected, \* a phone is connected to the BLE server
    loopPc,         \* position of loop()
    led,            \* the colour the LEDs show
    lastLedReset,   \* static of loop(): when the LEDs were last reset
    notifications,  \* the messages notified to the phone, in order
    sightings,      \* the recorded samples of the Business Orbs, in order
    \* The standalone user device (unnamed/part_000) and the company
    \* device it talks to (src/Company.cpp)
    userPoints,     \* the total points stored on the device
    pointAwarded,   \* an adjustment was made in this connection
    firstmessage,   \* no message of this connection has been let in yet
    doConnect,      \* the scan found the company device: loop() connects
    inWhile,        \* loop() is in its while (pClient->isConnected())
    linked,         \* the BLE connection of the two devices is up
    notice,         \* the response the company device is notifying
    pointsToGive,   \* pointsToGive of the company device
    sessions,       \* number of connections made so far
    \* The hook useOrbConnection (LoyaltyLand/hooks/useOrbConnection.ts)
    deviceRef,      \* deviceRef.current: "null" or "device"
    subscriptionRef,      \* subscriptionRef.current is set
    reconnectTimeoutRef,  \* reconnectTimeoutRef.current: a timer id, 0 = null
    timers,         \* the ids of the armed timers
    nextTimer,      \* the id the next setTimeout returns
    connecting,     \* calls of connectToStoredOrb waiting for the device
    orbLink,        \* the BLE connection of the phone and the User Orb is up
    listeners,      \* onDisconnected listeners registered on that connection
    cancelling,     \* who waits for cancelConnection(): "no", "disconnect",
                    \* "reconnect"
    released        \* disconnect() has completed, no connect()/reconnect() since

ledgerVars == <<users, transactions, businesses, pc, call, snap, rset, stale,
                attempts, result, eligibility>>

pairVars == <<userPoints, pointAwarded, firstmessage, doConnect, inWhile,
              linked, notice, pointsToGive, sessions>>

hookVars == <<deviceRef, subscriptionRef, reconnectTimeoutRef, timers,
              nextTimer, connecting, orbLink, listeners, cancelling, released>>

\* The devices and the hook that the User Orb and the ledger never touch.
otherDevices == <<pairVars, hookVars>>

orbVars == <<now, eventCooldowns, phoneConnected, loopPc, led,
             lastLedReset, notifications, sightings>>

deviceVars == <<now, eventCooldowns, phoneConnected, loopPc, led,
                lastLedReset, notifications, sightings, otherDevices>>

vars == <<ledgerVars, deviceVars>>

----------------------------------------------------------------------------
(* Bounds *)

NProcs == 2          \* number of calls in one behaviour

Procs == 1..NProcs

----------------------------------------------------------------------------
(* Identifiers *)

Users == {"u1", "u2"}
Orgs == {"A", "B"}
None == ""           \* null / undefined / "" : the falsy identifier

\* IEEE not-a-number, the result of arithmetic on an undefined field;
\* encoded outside the range of the point values of the model.
NaN == -1000000

----------------------------------------------------------------------------
(* JavaScript objects as functions with a finite domain of keys *)

Has(f, k) == k \in DOMAIN f

Put(f, k, v) == [x \in (DOMAIN f) \cup {k} |-> IF x = k THEN v ELSE f[x]]

Del(f, k) == [x \in (DOMAIN f) \ {k} |-> f[x]]

EmptyObj == [x \in {} |-> 0]

\* f[k] || 0
OrZero(f, k) == IF Has(f, k) /\ f[k] # NaN THEN f[k] ELSE 0

\* a + b on JavaScript numbers
JsAdd(a, b) == IF a = NaN \/ b = NaN THEN NaN ELSE a + b

\* a < b on JavaScript numbers (false when either side is NaN)
JsLess(a, b) == a # NaN /\ b # NaN /\ a < b

\* FieldValue.increment(n) applied to field k of map f
Increment(f, k, n) == Put(f, k, IF Has(f, k) THEN JsAdd(f[k], n) ELSE n)

----------------------------------------------------------------------------
(* Documents *)

NoDoc == [exists |-> FALSE]

Exists(d) == ~ Has(d, "exists")

\* signUp (personal role): the three-pool wallet
EmptyWallet == [locked |-> EmptyObj, universal |-> 0, designated |-> EmptyObj]

SignUpDoc(store) == [preferredStore |-> store, pointsWallet |-> EmptyWallet]

\* handleSignUp of SignUpScreen.js: no pointsWallet, preferredStore ""
LegacySignUpDoc == [preferredStore |-> None]

\* The events collection.  type is 'event' | 'volunteer'; hostOrgId may be
\* missing; an id outside the domain has no document.
EventDocs ==
    [ev_biz    |-> [type |-> "event",     points |-> 10,  hostOrgId |-> "A"],
     ev_biz20  |-> [type |-> "event",     points |-> 20,  hostOrgId |-> "A"],
     ev_vol    |-> [type |-> "volunteer", points |-> 50,  hostOrgId |-> "A"],
     ev_nohost |-> [type |-> "event",     points |-> 10,  hostOrgId |-> None],
     ev_volno  |-> [type |-> "volunteer", points |-> 100, hostOrgId |-> None],
     ev_zero   |-> [type |-> "event",     points |-> 0,   hostOrgId |-> "A"]]

EventIds == (DOMAIN EventDocs) \cup {"ev_gone"}

VOLUNTEER_POINT_VALUES == {20, 100}

\* Attempts of runTransaction before it gives up (Firestore's default).
MaxAttempts == 5

----------------------------------------------------------------------------
(* Calls and transactions *)

NoCall == [op |-> "none"]
NoSnap == [x \in {} |-> 0]
NoResult == [status |-> "none"]

Ok(data) == [status |-> "ok", data |-> data]
Err(code, message) == [status |-> "error", code |-> code, message |-> message]

TxKey(u, e) == <<"tx", u, e>>
UserKey(u) == <<"user", u>>

\* Mutant: commits without conflict detection (no transaction isolation).
MarkStale_Never(p, writes) == stale

\* The open transactions a commit writing `writes` invalidates.
MarkStale(p, writes) ==
    [q \in Procs |-> stale[q] \/ (q # p /\ rset[q] \cap writes # {})]

\* The call is over: r goes to the caller.
Finish(p, r) ==
    /\ pc' = [pc EXCEPT ![p] = "done"]
    /\ result' = [result EXCEPT ![p] = r]
    /\ snap' = [snap EXCEPT ![p] = NoSnap]
    /\ rset' = [rset EXCEPT ![p] = {}]

\* The update function has read `reads` and prepared `writes`: the
\* transaction waits at `at` for its commit.
Prepared(p, at, reads, writes) ==
    /\ pc' = [pc EXCEPT ![p] = at]
    /\ snap' = [snap EXCEPT ![p] = writes]
    /\ rset' = [rset EXCEPT ![p] = reads]
    /\ UNCHANGED result

\* A call starts on the lowest idle process.
CanStart(p) == pc[p] = "idle" /\ \A q \in Procs : q < p => pc[q] # "idle"

\* A user who has earned 3 points locked to A and 6 volunteer points with
\* awardPoints of the points service, and has designated 2 of these to A.
ActiveDoc ==
    [preferredStore |-> "B",
     pointsWallet |-> [locked |-> [A |-> 3], universal |-> 4,
                       designated |-> [A |-> 2]]]

ActiveRecords ==
    << [type |-> "earn", userId |-> "u1", orgId |-> "A", pointsEarned |-> 3,
        isVolunteer |-> FALSE],
       [type |-> "earn", userId |-> "u1", orgId |-> None, pointsEarned |-> 6,
        isVolunteer |-> TRUE] >>

\* The initial users collections: of the cloud function alone, and of the
\* whole ledger (where u1 is the signed-in user of the client).
AwardInitUsers ==
    {[u1 |-> d1, u2 |-> d2] :
        d1 \in {NoDoc, LegacySignUpDoc, SignUpDoc(None), SignUpDoc("B")},
        d2 \in {NoDoc, SignUpDoc("B")}}

LedgerInitUsers ==
    {[u1 |-> d1, u2 |-> NoDoc] :
        d1 \in {NoDoc, LegacySignUpDoc, ActiveDoc}}

\* The User Orb after setup(), before loop() has run.
\* The standalone user device after setup(), beside the company device as
\* it is built (pointsToGive = -3).
PairSetup ==
    /\ userPoints = 0
    /\ pointAwarded = FALSE
    /\ firstmessage = TRUE
    /\ doConnect = FALSE
    /\ inWhile = FALSE
    /\ linked = FALSE
    /\ notice = <<>>
    /\ sessions = 0

\* The hook after its first effect has created the BLE manager, before any
\* call of connectToStoredOrb.
HookMounted ==
    /\ deviceRef = "null"
    /\ subscriptionRef = FALSE
    /\ reconnectTimeoutRef = 0
    /\ timers = {}
    /\ nextTimer = 1
    /\ connecting = 0
    /\ orbLink = FALSE
    /\ listeners = 0
    /\ cancelling = "no"
    /\ released = FALSE

\* What no action of the ledger and of the User Orb moves.
Elsewhere == PairSetup /\ pointsToGive = -3 /\ HookMounted

Setup ==
    /\ Elsewhere
    /\ eventCooldowns = <<>>
    /\ phoneConnected = FALSE
    /\ loopPc = "top"
    /\ led = "off"
    /\ notifications = <<>>
    /\ sightings = <<>>

\* The ledger with `docs` as users collection and no call made yet.
InitLedger(docs) ==
    /\ users \in docs
    /\ transactions = IF users["u1"] = ActiveDoc THEN ActiveRecords ELSE <<>>
    /\ businesses = [o \in {} |-> 0]
    /\ pc = [p \in Procs |-> "idle"]
    /\ call = [p \in Procs |-> NoCall]
    /\ snap = [p \in Procs |-> NoSnap]
    /\ rset = [p \in Procs |-> {}]
    /\ stale = [p \in Procs |-> FALSE]
    /\ attempts = [p \in Procs |-> 0]
    /\ result = [p \in Procs |-> NoResult]
    /\ eligibility = [p \in Procs |-> NoResult]

\* The ledger before any call, beside a User Orb that has just been
\* switched on (and that no action of the ledger moves).
InitWith(docs) ==
    /\ InitLedger(docs)
    /\ now = 0
    /\ lastLedReset = 0
    /\ Setup

InitAward == InitWith(AwardInitUsers)

Init == InitWith(LedgerInitUsers)

----------------------------------------------------------------------------
(* Cloud function awardPoints (functions/src/awardPoints.ts) *)

\* The 'earn' records the idempotency query matches.
ExistingTx(u, e) ==
    {i \in DOMAIN transactions :
        /\ Has(transactions[i], "eventId")
        /\ transactions[i].userId = u
        /\ transactions[i].eventId = e
        /\ transactions[i].type = "earn"}

IsVolunteer(ev) ==
    ev.type = "volunteer" \/ ev.points \in VOLUNTEER_POINT_VALUES

\* Mutant: the fallback order of a volunteer event reversed.
Destination_HostFirst(ev, preferredStore) ==
    IF IsVolunteer(ev)
      THEN (IF ev.hostOrgId # None THEN ev.hostOrgId ELSE preferredStore)
      ELSE ev.hostOrgId

\* preferredStore || hostOrgId for a volunteer event, hostOrgId otherwise
Destination(ev, preferredStore) ==
    IF IsVolunteer(ev)
      THEN (IF preferredStore # None THEN preferredStore ELSE ev.hostOrgId)
      ELSE ev.hostOrgId

\* Mutant: the updated wallet built without the spread of the current one.
AwardWrites_NoSpread(u, e, ev, userData) ==
    LET preferredStore == IF Has(userData, "preferredStore")
                            THEN userData.preferredStore ELSE None
        destination == Destination(ev, preferredStore)
        currentWallet == IF Has(userData, "pointsWallet")
                           THEN userData.pointsWallet ELSE EmptyObj
        currentBalance == OrZero(currentWallet, destination)
        currentTotalEarned == OrZero(userData, "totalPointsEarned")
    IN [updatedWallet |->
            Put(EmptyObj, destination, JsAdd(currentBalance, ev.points)),
        totalPointsEarned |-> JsAdd(currentTotalEarned, ev.points),
        transactionData |->
            [type |-> "earn", userId |-> u, eventId |-> e,
             hostOrgId |-> ev.hostOrgId, destination |-> destination,
             pointsEarned |-> ev.points, isVolunteer |-> IsVolunteer(ev)]]

\* What the update function prepares from the event and the user document
\* it has read (steps 4 to 8).
AwardWrites(u, e, ev, userData) ==
    LET preferredStore == IF Has(userData, "preferredStore")
                            THEN userData.preferredStore ELSE None
        destination == Destination(ev, preferredStore)
        currentWallet == IF Has(userData, "pointsWallet")
                           THEN userData.pointsWallet ELSE EmptyObj
        currentBalance == OrZero(currentWallet, destination)
        currentTotalEarned == OrZero(userData, "totalPointsEarned")
    IN [updatedWallet |->
            Put(currentWallet, destination, JsAdd(currentBalance, ev.points)),
        totalPointsEarned |-> JsAdd(currentTotalEarned, ev.points),
        transactionData |->
            [type |-> "earn", userId |-> u, eventId |-> e,
             hostOrgId |-> ev.hostOrgId, destination |-> destination,
             pointsEarned |-> ev.points, isVolunteer |-> IsVolunteer(ev)]]

\* Mutant: the check and the user read are made outside the transaction.
AwardReads_Untracked(u, e) == {}

\* What the transaction of awardPoints(u, e) reads.
AwardReads(u, e) == {TxKey(u, e), UserKey(u)}

\* Mutant: the idempotency check left out.
AwardRun_NoIdempotency(p, u, e) ==
    IF e \notin DOMAIN EventDocs
      THEN Finish(p, Err("not-found", "Event not found."))
    ELSE IF EventDocs[e].points <= 0
      THEN Finish(p, Err("failed-precondition",
                         "Event has no valid point value."))
    ELSE IF EventDocs[e].hostOrgId = None
      THEN Finish(p, Err("failed-precondition",
                         "Event has no associated organization."))
    ELSE IF ~ Exists(users[u])
      THEN Finish(p, Err("not-found", "User not found."))
    ELSE Prepared(p, "aw_commit", AwardReads(u, e),
                  AwardWrites(u, e, EventDocs[e], users[u]))

\* Mutant: the hostOrgId check left out.
AwardRun_NoHostCheck(p, u, e) ==
    IF ExistingTx(u, e) # {}
      THEN Finish(p, Err("already-exists",
                         "Points have already been awarded for this event."))
    ELSE IF e \notin DOMAIN EventDocs
      THEN Finish(p, Err("not-found", "Event not found."))
    ELSE IF EventDocs[e].points <= 0
      THEN Finish(p, Err("failed-precondition",
                         "Event has no valid point value."))
    ELSE IF ~ Exists(users[u])
      THEN Finish(p, Err("not-found", "User not found."))
    ELSE Prepared(p, "aw_commit", AwardReads(u, e),
                  AwardWrites(u, e, EventDocs[e], users[u]))

\* One run of the update function: 1. idempotency query, 2. event document,
\* 3. user document; it throws or leaves the transaction ready to commit.
AwardRun(p, u, e) ==
    IF ExistingTx(u, e) # {}
      THEN Finish(p, Err("already-exists",
                         "Points have already been awarded for this event."))
    ELSE IF e \notin DOMAIN EventDocs
      THEN Finish(p, Err("not-found", "Event not found."))
    ELSE IF EventDocs[e].points <= 0
      THEN Finish(p, Err("failed-precondition",
                         "Event has no valid point value."))
    ELSE IF EventDocs[e].hostOrgId = None
      THEN Finish(p, Err("failed-precondition",
                         "Event has no associated organization."))
    ELSE IF ~ Exists(users[u])
      THEN Finish(p, Err("not-found", "User not found."))
    ELSE Prepared(p, "aw_commit", AwardReads(u, e),
                  AwardWrites(u, e, EventDocs[e], users[u]))

\* Mutant: the comparison of context.auth.uid with userId left out.
AwardCall_NoUidCheck(p, authUid, userId, eventId) ==
    /\ CanStart(p)
    /\ call' = [call EXCEPT ![p] = [op |-> "awardPoints", auth |-> authUid,
                                    userId |-> userId, eventId |-> eventId]]
    /\ UNCHANGED deviceVars
    /\ UNCHANGED eligibility
    /\ UNCHANGED <<users, transactions, businesses, stale>>
    /\ IF authUid = None
         THEN /\ Finish(p, Err("unauthenticated",
                               "User must be authenticated to earn points."))
              /\ UNCHANGED attempts
       ELSE IF userId = None
         THEN /\ Finish(p, Err("invalid-argument",
                               "userId is required and must be a string."))
              /\ UNCHANGED attempts
       ELSE IF eventId = None
         THEN /\ Finish(p, Err("invalid-argument",
                               "eventId is required and must be a string."))
              /\ UNCHANGED attempts
       ELSE /\ AwardRun(p, userId, eventId)
            /\ attempts' = [attempts EXCEPT ![p] = 1]

\* The call arrives: the checks before the transaction, then its first run.
AwardCall(p, authUid, userId, eventId) ==
    /\ CanStart(p)
    /\ call' = [call EXCEPT ![p] = [op |-> "awardPoints", auth |-> authUid,
                                    userId |-> userId, eventId |-> eventId]]
    /\ UNCHANGED deviceVars
    /\ UNCHANGED eligibility
    /\ UNCHANGED <<users, transactions, businesses, stale>>
    /\ IF authUid = None
         THEN /\ Finish(p, Err("unauthenticated",
                               "User must be authenticated to earn points."))
              /\ UNCHANGED attempts
       ELSE IF userId = None
         THEN /\ Finish(p, Err("invalid-argument",
                               "userId is required and must be a string."))
              /\ UNCHANGED attempts
       ELSE IF eventId = None
         THEN /\ Finish(p, Err("invalid-argument",
                               "eventId is required and must be a string."))
              /\ UNCHANGED attempts
       ELSE IF authUid # userId
         THEN /\ Finish(p, Err("permission-denied",
                               "Cannot award points to a different user."))
              /\ UNCHANGED attempts
       ELSE /\ AwardRun(p, userId, eventId)
            /\ attempts' = [attempts EXCEPT ![p] = 1]

\* Mutant: the record is created, the user document is not updated.
AwardCommit_RecordOnly(p) ==
    /\ pc[p] = "aw_commit"
    /\ ~ stale[p]
    /\ LET t == snap[p].transactionData
       IN /\ transactions' = Append(transactions, t)
          /\ stale' = MarkStale(p, {TxKey(call[p].userId, call[p].eventId)})
          /\ Finish(p, Ok([pointsAwarded |-> t.pointsEarned,
                           destination |-> t.destination,
                           isVolunteer |-> t.isVolunteer]))
    /\ UNCHANGED deviceVars
    /\ UNCHANGED eligibility
    /\ UNCHANGED <<users, businesses, call, attempts>>

\* transaction.create + transaction.update, committed together.
AwardCommit(p) ==
    /\ pc[p] = "aw_commit"
    /\ ~ stale[p]
    /\ LET u == call[p].userId
           e == call[p].eventId
           t == snap[p].transactionData
       IN /\ transactions' = Append(transactions, t)
          /\ users' = [users EXCEPT ![u] =
                 Put(Put(@, "pointsWallet", snap[p].updatedWallet),
                     "totalPointsEarned", snap[p].totalPointsEarned)]
          /\ stale' = MarkStale(p, {TxKey(u, e), UserKey(u)})
          /\ Finish(p, Ok([pointsAwarded |-> t.pointsEarned,
                           destination |-> t.destination,
                           isVolunteer |-> t.isVolunteer]))
    /\ UNCHANGED deviceVars
    /\ UNCHANGED eligibility
    /\ UNCHANGED <<businesses, call, attempts>>

\* Mutant: a transaction that lost a conflict is not run again; it is only
\* given up once its attempts are used up.
AwardRetry_NoRerun(p) ==
    /\ pc[p] = "aw_commit"
    /\ stale[p]
    /\ attempts[p] >= MaxAttempts
    /\ stale' = [stale EXCEPT ![p] = FALSE]
    /\ Finish(p, Err("internal",
                     "An unexpected error occurred while awarding points."))
    /\ UNCHANGED deviceVars
    /\ UNCHANGED eligibility
    /\ UNCHANGED <<users, transactions, businesses, call, attempts>>

\* A conflicting commit got in first: the update function runs again, or
\* runTransaction gives up and the catch block reports 'internal'.
AwardRetry(p) ==
    /\ pc[p] = "aw_commit"
    /\ stale[p]
    /\ stale' = [stale EXCEPT ![p] = FALSE]
    /\ UNCHANGED deviceVars
    /\ UNCHANGED eligibility
    /\ UNCHANGED <<users, transactions, businesses, call>>
    /\ IF attempts[p] < MaxAttempts
         THEN /\ AwardRun(p, call[p].userId, call[p].eventId)
              /\ attempts' = [attempts EXCEPT ![p] = @ + 1]
         ELSE /\ Finish(p, Err("internal",
                     "An unexpected error occurred while awarding points."))
              /\ UNCHANGED attempts

\* The commit is rejected by the storage (unavailable): nothing is written.
AwardFail(p) ==
    /\ pc[p] = "aw_commit"
    /\ Finish(p, Err("internal",
                     "An unexpected error occurred while awarding points."))
    /\ stale' = [stale EXCEPT ![p] = FALSE]
    /\ UNCHANGED deviceVars
    /\ UNCHANGED eligibility
    /\ UNCHANGED <<users, transactions, businesses, call, attempts>>

\* The callers of the model: a signed-in user for itself, a signed-in user
\* for the other user, and a caller that is not signed in.
AwardCallers == {<<a, u>> \in (Users \cup {None}) \X Users :
                    a = u \/ u = "u1"}

AwardPoints(p) ==
    \/ \E c \in AwardCallers, e \in EventIds : AwardCall(p, c[1], c[2], e)
    \/ AwardCommit(p)
    \/ AwardRetry(p)
    \/ AwardFail(p)

NextAward == \E p \in Procs : AwardPoints(p)

SpecAward == InitAward /\ [][NextAward]_vars

----------------------------------------------------------------------------
(* The cloud function called for oneself, for another user and without     *)
(* being signed in, both users having a document                           *)

AuthCallers == (Users \cup {None}) \X Users

AuthEvents == {"ev_biz", "ev_biz20", "ev_vol"}

InitAuth == InitWith({[u1 |-> SignUpDoc("B"), u2 |-> SignUpDoc(None)]})

NextAuth ==
    \E p \in Procs :
        \/ \E c \in AuthCallers, e \in AuthEvents : AwardCall(p, c[1], c[2], e)
        \/ AwardCommit(p)
        \/ AwardRetry(p)
        \/ AwardFail(p)

SpecAuth == InitAuth /\ [][NextAuth]_vars

----------------------------------------------------------------------------
(* Cloud function checkEventEligibility (functions/src/awardPoints.ts),    *)
(* called by a client before it calls awardPoints for the same user and    *)
(* event                                                                   *)

\* What the function answers (or throws).
Eligibility(authUid, userId, eventId) ==
    IF authUid = None
      THEN Err("unauthenticated", "User must be authenticated.")
    ELSE IF userId = None \/ eventId = None
      THEN Err("invalid-argument", "userId and eventId are required.")
    ELSE IF ExistingTx(userId, eventId) # {}
      THEN Ok([eligible |-> FALSE,
               reason |-> "Points already earned for this event."])
    ELSE IF eventId \notin DOMAIN EventDocs
      THEN Ok([eligible |-> FALSE, reason |-> "Event not found."])
    ELSE IF EventDocs[eventId].points <= 0
      THEN Ok([eligible |-> FALSE,
               reason |-> "Event has no valid point value."])
    ELSE Ok([eligible |-> TRUE])

\* The client of process p asks, and keeps the answer.  (The clients ask
\* in the order of the processes.)
checkEventEligibility(p, authUid, userId, eventId) ==
    /\ pc[p] = "idle"
    /\ eligibility[p] = NoResult
    /\ \A q \in Procs : q < p => eligibility[q] # NoResult
    /\ eligibility' =
           [eligibility EXCEPT ![p] =
               [auth |-> authUid, userId |-> userId, eventId |-> eventId,
                answer |-> Eligibility(authUid, userId, eventId)]]
    /\ UNCHANGED <<users, transactions, businesses, pc, call, snap, rset,
                   stale, attempts, result>>
    /\ UNCHANGED deviceVars

\* The client was told eligible: true.
SawEligible(p) ==
    /\ eligibility[p] # NoResult
    /\ eligibility[p].answer.status = "ok"
    /\ eligibility[p].answer.data.eligible

\* The client calls awardPoints for the user and the event it has asked
\* about, whatever it was told: the answer binds nobody.
AwardAfterCheck(p) ==
    /\ eligibility[p] # NoResult
    /\ AwardCall(p, eligibility[p].auth, eligibility[p].userId,
                 eligibility[p].eventId)

\* The clients of the model: u1 signed in, and a client not signed in; the
\* events: one worth 10 points, one worth none, and one that is not there.
CheckCallers == {<<"u1", "u1">>, <<None, "u1">>}

CheckEvents == {"ev_biz", "ev_zero", "ev_gone"}

InitCheck == InitWith({[u1 |-> SignUpDoc(None), u2 |-> NoDoc]})

NextCheck ==
    \E p \in Procs :
        \/ \E c \in CheckCallers, e \in CheckEvents :
               checkEventEligibility(p, c[1], c[2], e)
        \/ AwardAfterCheck(p)
        \/ AwardCommit(p)
        \/ AwardRetry(p)
        \/ AwardFail(p)

SpecCheck == InitCheck /\ [][NextCheck]_vars

----------------------------------------------------------------------------
(* Transaction service: claimPoints, redeemReward (unnamed/part_002) *)

\* orbId -> organization; an unknown orb falls back to universal.
ORB_TO_ORG_MAP ==
    [ORB_001  |-> [orgId |-> "A", defaultPoints |-> 10],
     DEMO_ORB |-> [orgId |-> "universal", defaultPoints |-> 25]]

getOrgFromOrbId(orbId) ==
    IF orbId \in DOMAIN ORB_TO_ORG_MAP
      THEN ORB_TO_ORG_MAP[orbId]
      ELSE [orgId |-> "universal", defaultPoints |-> 20]

\* eventPoints || defaultPoints
PointsToAward(c) ==
    IF c.eventPoints # 0 THEN c.eventPoints
    ELSE getOrgFromOrbId(c.orbId).defaultPoints

\* userDoc.data().pointsWallet || {}
WalletOrEmpty(d) ==
    IF Exists(d) /\ Has(d, "pointsWallet") THEN d.pointsWallet ELSE EmptyObj

\* set(..., { merge: true }) of a pointsWallet map: the fields given
\* replace the stored ones, the other stored fields stay.
MergeMap(stored, given) ==
    [k \in (DOMAIN stored) \cup (DOMAIN given) |->
        IF k \in DOMAIN given THEN given[k] ELSE stored[k]]

\* The update function of claimPoints: reads the user document (which need
\* not exist) and queues the merge.
ClaimRun(p, c) ==
    LET currentWallet == WalletOrEmpty(users[c.userId])
        currentUniversal == OrZero(currentWallet, "universal")
    IN Prepared(p, "cp_commit", {UserKey(c.userId)},
                [currentWallet |-> currentWallet,
                 newBalance |-> JsAdd(currentUniversal, PointsToAward(c))])

\* transaction.set(userRef, {totalPointsEarned: increment, pointsWallet:
\* {...currentWallet, [orgId]: increment, universal: increment}}, merge)
ClaimCommit(p) ==
    /\ pc[p] = "cp_commit"
    /\ ~ stale[p]
    /\ LET c == call[p]
           n == PointsToAward(c)
           orgId == getOrgFromOrbId(c.orbId).orgId
           d == IF Exists(users[c.userId]) THEN users[c.userId] ELSE EmptyObj
           w == MergeMap(WalletOrEmpty(users[c.userId]), snap[p].currentWallet)
       IN users' = [users EXCEPT ![c.userId] =
              Put(Increment(d, "totalPointsEarned", n), "pointsWallet",
                  Increment(IF orgId = "universal" THEN w
                            ELSE Increment(w, orgId, n),
                            "universal", n))]
    /\ stale' = MarkStale(p, {UserKey(call[p].userId)})
    /\ pc' = [pc EXCEPT ![p] = "cp_addDoc"]
    /\ rset' = [rset EXCEPT ![p] = {}]
    /\ snap' = [snap EXCEPT ![p] = [newBalance |-> snap[p].newBalance]]
    /\ UNCHANGED deviceVars
    /\ UNCHANGED eligibility
    /\ UNCHANGED <<transactions, businesses, call, attempts, result>>

\* Mutant: the record is written under a fixed document id (setDoc), so a
\* second claim replaces the record of the first.
ClaimAddDoc_FixedId(p) ==
    /\ pc[p] = "cp_addDoc"
    /\ LET c == call[p]
           r == [userId |-> c.userId,
                 orgId |-> getOrgFromOrbId(c.orbId).orgId,
                 type |-> "earn", amount |-> PointsToAward(c),
                 orbId |-> c.orbId]
       IN /\ transactions' =
                IF transactions = <<>> THEN <<r>>
                ELSE [transactions EXCEPT ![Len(transactions)] = r]
          /\ Finish(p, Ok([pointsEarned |-> PointsToAward(c),
                           newBalance |-> snap[p].newBalance]))
    /\ UNCHANGED deviceVars
    /\ UNCHANGED eligibility
    /\ UNCHANGED <<users, businesses, call, stale, attempts>>

\* addDoc(collection(db, 'transactions'), {... type: 'earn' ...})
ClaimAddDoc(p) ==
    /\ pc[p] = "cp_addDoc"
    /\ LET c == call[p]
       IN /\ transactions' = Append(transactions,
                [userId |-> c.userId,
                 orgId |-> getOrgFromOrbId(c.orbId).orgId,
                 type |-> "earn", amount |-> PointsToAward(c),
                 orbId |-> c.orbId])
          /\ Finish(p, Ok([pointsEarned |-> PointsToAward(c),
                           newBalance |-> snap[p].newBalance]))
    /\ UNCHANGED deviceVars
    /\ UNCHANGED eligibility
    /\ UNCHANGED <<users, businesses, call, stale, attempts>>

ClaimFailed == Err("Error", "Failed to claim points. Please try again.")

\* Mutant: redeemReward without its balance check.
RedeemRun_NoBalanceCheck(p, c) ==
    LET userDoc == users[c.userId]
        currentBalance == OrZero(WalletOrEmpty(userDoc), "universal")
    IN IF ~ Exists(userDoc)
         THEN Finish(p, Err("Error", "User account not found"))
       ELSE Prepared(p, "rr_commit", {UserKey(c.userId)},
                     [newBalance |-> currentBalance - c.rewardCost])

\* The update function of redeemReward: the balance check on the universal
\* entry.
RedeemRun(p, c) ==
    LET userDoc == users[c.userId]
        currentWallet == WalletOrEmpty(userDoc)
        currentBalance == OrZero(currentWallet, "universal")
    IN IF ~ Exists(userDoc)
         THEN Finish(p, Err("Error", "User account not found"))
       ELSE IF JsLess(currentBalance, c.rewardCost)
         THEN Finish(p, [status |-> "error", code |-> "Error",
                         message |-> "Insufficient points.",
                         have |-> currentBalance, need |-> c.rewardCost])
       ELSE Prepared(p, "rr_commit", {UserKey(c.userId)},
                     [newBalance |-> currentBalance - c.rewardCost])

\* transaction.update(userRef, {'pointsWallet.universal':
\* increment(-rewardCost), totalPointsSpent: increment(rewardCost)})
RedeemCommit(p) ==
    /\ pc[p] = "rr_commit"
    /\ ~ stale[p]
    /\ LET c == call[p]
           d == users[c.userId]
       IN users' = [users EXCEPT ![c.userId] =
              Put(Increment(d, "totalPointsSpent", c.rewardCost),
                  "pointsWallet",
                  Increment(WalletOrEmpty(d), "universal", 0 - c.rewardCost))]
    /\ stale' = MarkStale(p, {UserKey(call[p].userId)})
    /\ pc' = [pc EXCEPT ![p] = "rr_addDoc"]
    /\ rset' = [rset EXCEPT ![p] = {}]
    /\ UNCHANGED deviceVars
    /\ UNCHANGED eligibility
    /\ UNCHANGED <<transactions, businesses, call, snap, attempts, result>>

\* addDoc(collection(db, 'transactions'), {... type: 'spend' ...})
RedeemAddDoc(p) ==
    /\ pc[p] = "rr_addDoc"
    /\ LET c == call[p]
       IN transactions' = Append(transactions,
              [userId |-> c.userId,
               orgId |-> getOrgFromOrbId(c.orbId).orgId,
               type |-> "spend", amount |-> c.rewardCost,
               rewardId |-> c.rewardId, orbId |-> c.orbId])
    /\ pc' = [pc EXCEPT ![p] = "rr_stats"]
    /\ UNCHANGED deviceVars
    /\ UNCHANGED eligibility
    /\ UNCHANGED <<users, businesses, call, snap, rset, stale, attempts,
                   result>>

RedeemOk(p) ==
    Ok([pointsSpent |-> call[p].rewardCost, newBalance |-> snap[p].newBalance])

\* setDoc(businessRef, {totalPointsRedeemed: increment(rewardCost),
\* redemptionCount: increment(1)}, merge)
RedeemStats(p) ==
    /\ pc[p] = "rr_stats"
    /\ LET orgId == getOrgFromOrbId(call[p].orbId).orgId
           b == IF Has(businesses, orgId) THEN businesses[orgId] ELSE EmptyObj
       IN businesses' = Put(businesses, orgId,
              Increment(Increment(b, "totalPointsRedeemed",
                                  call[p].rewardCost),
                        "redemptionCount", 1))
    /\ Finish(p, RedeemOk(p))
    /\ UNCHANGED deviceVars
    /\ UNCHANGED eligibility
    /\ UNCHANGED <<users, transactions, call, stale, attempts>>

\* The statistics write fails: caught and logged, the call succeeds.
RedeemStatsFail(p) ==
    /\ pc[p] = "rr_stats"
    /\ Finish(p, RedeemOk(p))
    /\ UNCHANGED deviceVars
    /\ UNCHANGED eligibility
    /\ UNCHANGED <<users, transactions, businesses, call, stale, attempts>>

----------------------------------------------------------------------------
(* Points service: designateUniversalPoints, redeemDeal, awardPoints       *)
(* (services/pointsService.ts)                                             *)

\* userData.pointsWallet || { locked: {}, universal: 0, designated: {} }
WalletOrDefault(d) ==
    IF Has(d, "pointsWallet") THEN d.pointsWallet ELSE EmptyWallet

\* The number read from field k: an undefined field behaves as NaN.
Num(f, k) == IF Has(f, k) THEN f[k] ELSE NaN

Min(a, b) == IF a < b THEN a ELSE b

UserNotFound == Err("Error", "User not found")

\* wallet.locked / wallet.designated is undefined: indexing it throws.
NoPool == Err("TypeError", "Cannot read properties of undefined")

Insufficient(message, have, need) ==
    [status |-> "error", code |-> "Error", message |-> message,
     have |-> have, need |-> need]

\* The update function of designateUniversalPoints.
DesignateRun(p, c) ==
    LET userDoc == users[c.userId]
        wallet == WalletOrDefault(userDoc)
        universal == Num(wallet, "universal")
    IN IF ~ Exists(userDoc) THEN Finish(p, UserNotFound)
       ELSE IF JsLess(universal, c.amount)
         THEN Finish(p, Insufficient("Insufficient universal points",
                                     universal, c.amount))
       ELSE IF ~ Has(wallet, "designated") THEN Finish(p, NoPool)
       ELSE Prepared(p, "dg_commit", {UserKey(c.userId)},
                [wallet |->
                    Put(Put(wallet, "universal",
                            JsAdd(universal, 0 - c.amount)),
                        "designated",
                        Put(wallet.designated, c.orgId,
                            OrZero(wallet.designated, c.orgId) + c.amount))])

\* Locked points are spent first, then the designated ones.
DealSplit(lockedPoints, designatedPoints, cost) ==
    LET lockedSpent == IF lockedPoints > 0
                         THEN Min(lockedPoints, cost) ELSE 0
        remainingCost == cost - lockedSpent
        designatedSpent == IF remainingCost > 0 /\ designatedPoints > 0
                             THEN Min(designatedPoints, remainingCost) ELSE 0
    IN [lockedSpent |-> lockedSpent, designatedSpent |-> designatedSpent]

\* pool[orgId] after `spent` was taken from `points`: a pool that was
\* touched and fell to zero loses the entry.
Deduct(pool, orgId, points, spent, touched) ==
    IF ~ touched THEN pool
    ELSE IF points - spent = 0 THEN Del(pool, orgId)
    ELSE Put(pool, orgId, points - spent)

\* The update function of redeemDeal.
DealRun(p, c) ==
    LET userDoc == users[c.userId]
        wallet == WalletOrDefault(userDoc)
    IN IF ~ Exists(userDoc) THEN Finish(p, UserNotFound)
       ELSE IF ~ Has(wallet, "locked") \/ ~ Has(wallet, "designated")
         THEN Finish(p, NoPool)
       ELSE
         LET lockedPoints == OrZero(wallet.locked, c.orgId)
             designatedPoints == OrZero(wallet.designated, c.orgId)
             totalBuyingPower == lockedPoints + designatedPoints
             split == DealSplit(lockedPoints, designatedPoints, c.cost)
         IN IF totalBuyingPower < c.cost
              THEN Finish(p, Insufficient("Insufficient points.",
                                          totalBuyingPower, c.cost))
              ELSE Prepared(p, "rd_commit", {UserKey(c.userId)},
                     [wallet |->
                        [wallet EXCEPT
                           !.locked = Deduct(@, c.orgId, lockedPoints,
                                             split.lockedSpent,
                                             lockedPoints > 0),
                           !.designated = Deduct(@, c.orgId, designatedPoints,
                                 split.designatedSpent,
                                 c.cost - split.lockedSpent > 0
                                    /\ designatedPoints > 0)],
                      lockedSpent |-> split.lockedSpent,
                      designatedSpent |-> split.designatedSpent])

\* The update function of awardPoints of the points service.
ServiceAwardRun(p, c) ==
    LET userDoc == users[c.userId]
        wallet == WalletOrDefault(userDoc)
    IN IF ~ Exists(userDoc) THEN Finish(p, UserNotFound)
       ELSE IF c.isVolunteer
         THEN Prepared(p, "ap_commit", {UserKey(c.userId)},
                [wallet |-> Put(wallet, "universal",
                                JsAdd(Num(wallet, "universal"), c.amount))])
       ELSE IF c.orgId # None
         THEN (IF ~ Has(wallet, "locked") THEN Finish(p, NoPool)
               ELSE Prepared(p, "ap_commit", {UserKey(c.userId)},
                      [wallet |->
                         [wallet EXCEPT !.locked =
                            Put(@, c.orgId, OrZero(@, c.orgId) + c.amount)]]))
       ELSE Prepared(p, "ap_commit", {UserKey(c.userId)}, [wallet |-> wallet])

\* Where the call goes once its wallet transaction has committed.
AfterCommit(at) ==
    CASE at = "dg_commit" -> "done"
      [] at = "rd_commit" -> "rd_addDoc"
      [] at = "ap_commit" -> "ap_addDoc"

\* transaction.update(userRef, { pointsWallet: wallet })
ServiceCommit(p) ==
    /\ pc[p] \in {"dg_commit", "rd_commit", "ap_commit"}
    /\ ~ stale[p]
    /\ users' = [users EXCEPT ![call[p].userId] =
                    Put(@, "pointsWallet", snap[p].wallet)]
    /\ stale' = MarkStale(p, {UserKey(call[p].userId)})
    /\ rset' = [rset EXCEPT ![p] = {}]
    /\ pc' = [pc EXCEPT ![p] = AfterCommit(pc[p])]
    /\ result' = [result EXCEPT ![p] =
                    IF pc[p] = "dg_commit" THEN Ok(EmptyObj) ELSE @]
    /\ snap' = [snap EXCEPT ![p] =
                    IF pc[p] = "rd_commit"
                      THEN [lockedSpent |-> snap[p].lockedSpent,
                            designatedSpent |-> snap[p].designatedSpent]
                      ELSE NoSnap]
    /\ UNCHANGED deviceVars
    /\ UNCHANGED eligibility
    /\ UNCHANGED <<transactions, businesses, call, attempts>>

\* addDoc of the audit record of redeemDeal
DealAddDoc(p) ==
    /\ pc[p] = "rd_addDoc"
    /\ LET c == call[p]
           breakdown == [locked |-> snap[p].lockedSpent,
                         designated |-> snap[p].designatedSpent]
       IN /\ transactions' = Append(transactions,
                [type |-> "spend", userId |-> c.userId, orgId |-> c.orgId,
                 dealId |-> c.dealId, pointsSpent |-> c.cost,
                 breakdown |-> breakdown])
          /\ Finish(p, Ok([pointsSpent |-> breakdown]))
    /\ UNCHANGED deviceVars
    /\ UNCHANGED eligibility
    /\ UNCHANGED <<users, businesses, call, stale, attempts>>

\* addDoc of the audit record of awardPoints
ServiceAwardAddDoc(p) ==
    /\ pc[p] = "ap_addDoc"
    /\ LET c == call[p]
       IN transactions' = Append(transactions,
              [type |-> "earn", userId |-> c.userId, orgId |-> c.orgId,
               pointsEarned |-> c.amount, isVolunteer |-> c.isVolunteer])
    /\ Finish(p, Ok(EmptyObj))
    /\ UNCHANGED deviceVars
    /\ UNCHANGED eligibility
    /\ UNCHANGED <<users, businesses, call, stale, attempts>>

----------------------------------------------------------------------------
(* The calls of the client, their retries and their failures *)

\* One run of the update function of call c.
ClientRun(p, c) ==
    CASE c.op = "claimPoints" -> ClaimRun(p, c)
      [] c.op = "redeemReward" -> RedeemRun(p, c)
      [] c.op = "designateUniversalPoints" -> DesignateRun(p, c)
      [] c.op = "redeemDeal" -> DealRun(p, c)
      [] c.op = "pointsService.awardPoints" -> ServiceAwardRun(p, c)

\* A call of the client arrives and its update function runs.
ClientCall(p, c) ==
    /\ CanStart(p)
    /\ call' = [call EXCEPT ![p] = c]
    /\ attempts' = [attempts EXCEPT ![p] = 1]
    /\ ClientRun(p, c)
    /\ UNCHANGED deviceVars
    /\ UNCHANGED eligibility
    /\ UNCHANGED <<users, transactions, businesses, stale>>

\* What the caller gets when the storage rejects: claimPoints replaces
\* every error by its own, the others pass it on.
StorageError(p, code) ==
    IF call[p].op = "claimPoints" THEN ClaimFailed
    ELSE Err(code, "storage failure")

ClientCommitPcs == {"cp_commit", "rr_commit", "dg_commit", "rd_commit",
                    "ap_commit"}

ClientAddDocPcs == {"cp_addDoc", "rr_addDoc", "rd_addDoc", "ap_addDoc"}

\* A conflicting commit got in first: the update function runs again, or
\* runTransaction gives up.
ClientRetry(p) ==
    /\ pc[p] \in ClientCommitPcs
    /\ stale[p]
    /\ stale' = [stale EXCEPT ![p] = FALSE]
    /\ UNCHANGED deviceVars
    /\ UNCHANGED eligibility
    /\ UNCHANGED <<users, transactions, businesses, call>>
    /\ IF attempts[p] < MaxAttempts
         THEN /\ ClientRun(p, call[p])
              /\ attempts' = [attempts EXCEPT ![p] = @ + 1]
         ELSE /\ Finish(p, StorageError(p, "aborted"))
              /\ UNCHANGED attempts

\* The commit of the wallet transaction is rejected: nothing is written.
ClientCommitFail(p) ==
    /\ pc[p] \in ClientCommitPcs
    /\ Finish(p, StorageError(p, "unavailable"))
    /\ stale' = [stale EXCEPT ![p] = FALSE]
    /\ UNCHANGED deviceVars
    /\ UNCHANGED eligibility
    /\ UNCHANGED <<users, transactions, businesses, call, attempts>>

\* addDoc of the audit record is rejected (or the client stops) after the
\* wallet transaction has committed.
ClientAddDocFail(p) ==
    /\ pc[p] \in ClientAddDocPcs
    /\ Finish(p, StorageError(p, "unavailable"))
    /\ UNCHANGED deviceVars
    /\ UNCHANGED eligibility
    /\ UNCHANGED <<users, transactions, businesses, call, stale, attempts>>

----------------------------------------------------------------------------
(* The whole ledger: the client of user u1 and the cloud function *)

ClaimCalls ==
    {[op |-> "claimPoints", userId |-> "u1", orbId |-> o[1],
      eventPoints |-> o[2]] :
        o \in {<<"ORB_001", 0>>, <<"DEMO_ORB", -5>>}}

RedeemCalls ==
    {[op |-> "redeemReward", userId |-> "u1", orbId |-> "ORB_001",
      rewardCost |-> n, rewardId |-> "reward_1"] : n \in {4, 30}}

DesignateCalls ==
    {[op |-> "designateUniversalPoints", userId |-> "u1", orgId |-> "A",
      amount |-> n] : n \in {-1, 2}}

DealCalls ==
    {[op |-> "redeemDeal", userId |-> "u1", orgId |-> "A", dealId |-> "deal_1",
      cost |-> n] : n \in {4, 9}}

ServiceAwardCalls ==
    {[op |-> "pointsService.awardPoints", userId |-> "u1", orgId |-> o[1],
      amount |-> o[3], isVolunteer |-> o[2]] :
        o \in {<<"A", FALSE, 3>>, <<None, TRUE, 3>>}}

ClientCalls ==
    ClaimCalls \cup RedeemCalls \cup DesignateCalls \cup DealCalls
        \cup ServiceAwardCalls

Next ==
    \E p \in Procs :
        \/ \E c \in ClientCalls : ClientCall(p, c)
        \/ ClaimCommit(p)
        \/ ClaimAddDoc(p)
        \/ RedeemCommit(p)
        \/ RedeemAddDoc(p)
        \/ RedeemStats(p)
        \/ RedeemStatsFail(p)
        \/ ServiceCommit(p)
        \/ DealAddDoc(p)
        \/ ServiceAwardAddDoc(p)
        \/ ClientRetry(p)
        \/ ClientCommitFail(p)
        \/ ClientAddDocFail(p)
        \/ \E e \in {"ev_biz", "ev_vol"} : AwardCall(p, "u1", "u1", e)
        \/ AwardCommit(p)
        \/ AwardRetry(p)
        \/ AwardFail(p)

Spec == Init /\ [][Next]_vars

----------------------------------------------------------------------------
(* The spends alone: redeemReward and redeemDeal of user u1, with costs    *)
(* below, at and above what the wallet holds, and a designation that       *)
(* moves nothing                                                           *)

\* A wallet with these locked and designated pools.
PoolDoc(locked, universal, designated) ==
    [preferredStore |-> "B",
     pointsWallet |-> [locked |-> locked, universal |-> universal,
                       designated |-> designated]]

SpendInitUsers ==
    {[u1 |-> d1, u2 |-> NoDoc] :
        d1 \in {ActiveDoc,
                PoolDoc(EmptyObj, 4, [A |-> 2]),
                PoolDoc([A |-> 3, B |-> 1], 0, EmptyObj)}}

InitSpend == InitWith(SpendInitUsers)

RewardSpendCalls ==
    {[op |-> "redeemReward", userId |-> "u1", orbId |-> "DEMO_ORB",
      rewardCost |-> n, rewardId |-> "reward_1"] : n \in {0, 4, 5}}

DealSpendCalls ==
    {[op |-> "redeemDeal", userId |-> "u1", orgId |-> "A", dealId |-> "deal_1",
      cost |-> n] : n \in {-1, 0, 2, 4, 5, 6}}

ZeroDesignateCalls ==
    {[op |-> "designateUniversalPoints", userId |-> "u1", orgId |-> "A",
      amount |-> 0]}

SpendCalls == RewardSpendCalls \cup DealSpendCalls \cup ZeroDesignateCalls

NextSpend ==
    \E p \in Procs :
        \/ \E c \in SpendCalls : ClientCall(p, c)
        \/ RedeemCommit(p)
        \/ RedeemAddDoc(p)
        \/ RedeemStats(p)
        \/ RedeemStatsFail(p)
        \/ ServiceCommit(p)
        \/ DealAddDoc(p)
        \/ ClientRetry(p)
        \/ ClientCommitFail(p)
        \/ ClientAddDocFail(p)

SpecSpend == InitSpend /\ [][NextSpend]_vars

----------------------------------------------------------------------------
(* The reads of the wallet and the spends, for a user id with and without  *)
(* a document                                                              *)

\* getUserBalance(userId) of the transaction service: 0 when the document
\* is missing (and 0 again from its catch), else
\* data.pointsWallet?.universal || 0.
getUserBalance(userId) ==
    LET userDoc == users[userId]
    IN IF ~ Exists(userDoc) THEN Ok(0)
       ELSE Ok(OrZero(WalletOrEmpty(userDoc), "universal"))

\* getWallet(userId) of the points service.
getWallet(userId) ==
    LET userDoc == users[userId]
    IN IF ~ Exists(userDoc) THEN UserNotFound
       ELSE Ok(WalletOrDefault(userDoc))

\* The body of calculateBuyingPower on the document it has read.
BuyingPower(userDoc, orgId) ==
    LET wallet == WalletOrDefault(userDoc)
    IN IF ~ Exists(userDoc) THEN UserNotFound
       ELSE IF ~ Has(wallet, "locked") \/ ~ Has(wallet, "designated")
         THEN NoPool
       ELSE Ok(OrZero(wallet.locked, orgId) + OrZero(wallet.designated, orgId))

\* calculateBuyingPower(userId, orgId) of the points service.
calculateBuyingPower(userId, orgId) == BuyingPower(users[userId], orgId)

\* What the query c answers.
QueryRun(c) ==
    CASE c.op = "getUserBalance" -> getUserBalance(c.userId)
      [] c.op = "getWallet" -> getWallet(c.userId)
      [] c.op = "calculateBuyingPower" -> calculateBuyingPower(c.userId, c.orgId)

\* A query arrives, reads the user document once and answers.
QueryCall(p, c) ==
    /\ CanStart(p)
    /\ call' = [call EXCEPT ![p] = c]
    /\ Finish(p, QueryRun(c))
    /\ UNCHANGED deviceVars
    /\ UNCHANGED eligibility
    /\ UNCHANGED <<users, transactions, businesses, stale, attempts>>

QueryUsers == {"u1", "u2"}

QueryCalls ==
    {[op |-> o, userId |-> u, orgId |-> "A"] :
        o \in {"getUserBalance", "getWallet", "calculateBuyingPower"},
        u \in QueryUsers}

AnySpendCalls ==
    {[op |-> "redeemReward", userId |-> u, orbId |-> "DEMO_ORB",
      rewardCost |-> 4, rewardId |-> "reward_1"] : u \in QueryUsers}
    \cup {[op |-> "redeemDeal", userId |-> u, orgId |-> "A",
           dealId |-> "deal_1", cost |-> 4] : u \in QueryUsers}

InitQuery == InitWith(LedgerInitUsers)

NextQuery ==
    \E p \in Procs :
        \/ \E c \in QueryCalls : QueryCall(p, c)
        \/ \E c \in AnySpendCalls : ClientCall(p, c)
        \/ RedeemCommit(p)
        \/ RedeemAddDoc(p)
        \/ RedeemStats(p)
        \/ RedeemStatsFail(p)
        \/ ServiceCommit(p)
        \/ DealAddDoc(p)
        \/ ClientRetry(p)
        \/ ClientCommitFail(p)
        \/ ClientAddDocFail(p)

SpecQuery == InitQuery /\ [][NextQuery]_vars

----------------------------------------------------------------------------
(* The Orb hub alone: claimPoints and redeemReward of user u1, as          *)
(* handleEarnComplete and handleSpendComplete call them                    *)

OrbInitUsers ==
    {[u1 |-> d1, u2 |-> NoDoc] :
        d1 \in {NoDoc, LegacySignUpDoc, SignUpDoc(None)}}

InitOrb == InitWith(OrbInitUsers)

OrbClaimCalls ==
    {[op |-> "claimPoints", userId |-> "u1", orbId |-> o[1],
      eventPoints |-> o[2]] :
        o \in {<<"ORB_001", 0>>, <<"DEMO_ORB", 0>>, <<"DEMO_ORB", 10>>}}

OrbRedeemCalls ==
    {[op |-> "redeemReward", userId |-> "u1", orbId |-> "DEMO_ORB",
      rewardCost |-> n, rewardId |-> "reward_1"] : n \in {10, 50}}

NextOrb ==
    \E p \in Procs :
        \/ \E c \in OrbClaimCalls \cup OrbRedeemCalls : ClientCall(p, c)
        \/ ClaimCommit(p)
        \/ ClaimAddDoc(p)
        \/ RedeemCommit(p)
        \/ RedeemAddDoc(p)
        \/ RedeemStats(p)
        \/ RedeemStatsFail(p)
        \/ ClientRetry(p)
        \/ ClientCommitFail(p)
        \/ ClientAddDocFail(p)

SpecOrb == InitOrb /\ [][NextOrb]_vars

----------------------------------------------------------------------------
(* The statistics of the businesses collection: written by redeemReward    *)
(* after its record, and by handleEarnComplete of a business account       *)
(* (components/MainHeader.tsx)                                             *)

MaxDistributed == 35

\* const earnedPoints = [10, 20, 25, 50][...]: two of the four values.
HubEarnedPoints == {10, 25}

\* handleEarnComplete(points) of the signed-in business account b:
\* setDoc(businessRef, {totalPointsDistributed: increment(points)}, merge).
\* No user document and no record is written.
handleEarnComplete(b, points) ==
    /\ LET d == IF Has(businesses, b) THEN businesses[b] ELSE EmptyObj
       IN /\ OrZero(d, "totalPointsDistributed") + points <= MaxDistributed
          /\ businesses' = Put(businesses, b,
                               Increment(d, "totalPointsDistributed", points))
    /\ UNCHANGED deviceVars
    /\ UNCHANGED eligibility
    /\ UNCHANGED <<users, transactions, pc, call, snap, rset, stale,
                   attempts, result>>

StatsCalls ==
    {[op |-> "redeemReward", userId |-> "u1", orbId |-> "ORB_001",
      rewardCost |-> 4, rewardId |-> "reward_1"],
     [op |-> "redeemDeal", userId |-> "u1", orgId |-> "A",
      dealId |-> "deal_1", cost |-> 2],
     [op |-> "claimPoints", userId |-> "u1", orbId |-> "ORB_001",
      eventPoints |-> 0]}

InitStats == InitWith({[u1 |-> PoolDoc(EmptyObj, 4, [A |-> 2]), u2 |-> NoDoc]})

NextStats ==
    \/ \E points \in HubEarnedPoints : handleEarnComplete("A", points)
    \/ \E p \in Procs :
        \/ \E c \in StatsCalls : ClientCall(p, c)
        \/ ClaimCommit(p)
        \/ ClaimAddDoc(p)
        \/ RedeemCommit(p)
        \/ RedeemAddDoc(p)
        \/ RedeemStats(p)
        \/ RedeemStatsFail(p)
        \/ ServiceCommit(p)
        \/ DealAddDoc(p)
        \/ ClientRetry(p)
        \/ ClientCommitFail(p)
        \/ ClientAddDocFail(p)

SpecStats == InitStats /\ [][NextStats]_vars

----------------------------------------------------------------------------
(* The settle calls under fair storage: awardPoints of the cloud function  *)
(* and redeemReward of the client, for the same user, with a storage that  *)
(* answers every commit and every write it is asked for                    *)

SettleAwards == {<<"u1", "ev_biz">>, <<"u1", "ev_vol">>, <<None, "ev_biz">>}

SettleRedeems ==
    {[op |-> "redeemReward", userId |-> "u1", orbId |-> "ORB_001",
      rewardCost |-> n, rewardId |-> "reward_1"] : n \in {4, 30}}

InitSettle == InitWith({[u1 |-> ActiveDoc, u2 |-> NoDoc]})

NextSettle ==
    \E p \in Procs :
        \/ \E a \in SettleAwards : AwardCall(p, a[1], "u1", a[2])
        \/ AwardCommit(p)
        \/ AwardRetry(p)
        \/ AwardFail(p)
        \/ \E c \in SettleRedeems : ClientCall(p, c)
        \/ RedeemCommit(p)
        \/ RedeemAddDoc(p)
        \/ RedeemStats(p)
        \/ RedeemStatsFail(p)
        \/ ClientRetry(p)
        \/ ClientCommitFail(p)
        \/ ClientAddDocFail(p)

\* What the storage does for the call of p when it answers: it commits the
\* transaction or reports the conflict (and runTransaction runs the update
\* function again or gives up), and it performs the writes that follow.
\* The failures of the storage are possible and never required.
Progress(p) ==
    \/ AwardCommit(p)
    \/ AwardRetry(p)
    \/ RedeemCommit(p)
    \/ ClientRetry(p)
    \/ RedeemAddDoc(p)
    \/ RedeemStats(p)

FairSettle ==
    InitSettle /\ [][NextSettle]_vars /\ \A p \in Procs : WF_vars(Progress(p))

----------------------------------------------------------------------------
(* Client wrapper awardPointsSafe (services/pointsApi.ts) *)

FriendlyMessage(code, message) ==
    CASE code = "already-exists" ->
             "You have already earned points for this event."
      [] code = "not-found" -> "This event could not be found."
      [] code = "unauthenticated" -> "Please sign in to earn points."
      [] code = "permission-denied" ->
             "You do not have permission to perform this action."
      [] code = "failed-precondition" ->
             "This event is not configured for points."
      [] OTHER -> message

\* What awardPointsSafe makes of the outcome r of the cloud function.
AwardPointsSafe(r) ==
    IF r.status = "ok"
      THEN [success |-> TRUE,
            data |-> [success |-> TRUE,
                      pointsAwarded |-> r.data.pointsAwarded,
                      destination |-> r.data.destination,
                      isVolunteer |-> r.data.isVolunteer]]
      ELSE [success |-> FALSE, error |-> FriendlyMessage(r.code, r.message)]

----------------------------------------------------------------------------
(* Reward selection of the Orb hub (components/OrbHubModal.tsx) with the   *)
(* wallet of the useWallet hook (hooks/useWallet.ts)                       *)

\* The point costs of DEMO_REWARDS.
DEMO_REWARDS == {50, 75, 100}

\* getAllBalances: the entries of the wallet with a balance above zero
\* (an entry that holds an object or NaN does not compare above zero).
getAllBalances(wallet) ==
    {k \in (DOMAIN wallet) \ {"locked", "designated"} :
        wallet[k] # NaN /\ wallet[k] > 0}

RECURSIVE SumBalances(_, _)
SumBalances(wallet, keys) ==
    IF keys = {} THEN 0
    ELSE LET k == CHOOSE x \in keys : TRUE
         IN wallet[k] + SumBalances(wallet, keys \ {k})

\* getAllBalances().reduce((sum, b) => sum + b.balance, 0)
totalPoints(wallet) == SumBalances(wallet, getAllBalances(wallet))

\* handleSelectReward: the pre-check of a spend and its message.
handleSelectReward(wallet, pointCost) ==
    IF totalPoints(wallet) < pointCost
      THEN [mode |-> "error", needMore |-> pointCost - totalPoints(wallet)]
      ELSE [mode |-> "spend-scanning"]

----------------------------------------------------------------------------
(* The User Orb (firmware/UserOrb/UserOrb.ino): it scans for Business Orbs *)
(* while a phone is connected and notifies the phone of the NEAR and the   *)
(* CLAIM zone, each with a cooldown.                                       *)
(*                                                                         *)
(* The clock counts units of 8 ms, so that the 2^32 ms of an unsigned long *)
(* fit the integers of TLC; it advances TickMs at a time, and every time   *)
(* of the program is a multiple of the unit.  A callback runs at one       *)
(* instant: the millis() readings of one onResult are equal.  The          *)
(* durations of the scan and of the delay of loop() are not modelled:      *)
(* every interleaving of samples, connections and clock ticks is a         *)
(* behaviour.                                                              *)

RSSI_NEAR == -80
RSSI_CLAIM == -40

CLAIM_COOLDOWN_MS == 5000
NEAR_COOLDOWN_MS == 3000

MAX_TRACKED_EVENTS == 10

\* Milliseconds as units of the clock.
Units(ms) == ms \div 8

\* An unsigned long of the ESP32 has 32 bits: 2^32 ms, in units.
ULong == 536870912

TickMs == 1000       \* milliseconds in one step of the clock
MaxTicks == 8        \* steps of the clock in one behaviour

\* A start of the observation late in the life of the device, shortly
\* before millis() wraps around.
LongRun == ULong - 2 * Units(TickMs)

\* The signal strengths of the samples: below the Near threshold, on it,
\* in the Near band, on the Claim threshold, and above it.
RssiValues == {-90, -80, -60, -40, -30}

millis == now % ULong

\* millis() - t, in unsigned long arithmetic.
Since(t) == (millis - t) % ULong

trackedEventCount == Len(eventCooldowns)

FreshCooldown(eventId) ==
    [eventId |-> eventId, lastNearNotify |-> 0, lastClaimNotify |-> 0]

\* Mutant: a new entry is added whether or not there is room.
findOrCreateCooldown_NoBound(table, eventId) ==
    LET found == {i \in 1..Len(table) : table[i].eventId = eventId}
    IN  IF found # {}
          THEN [table |-> table,
                at |-> CHOOSE i \in found : \A j \in found : i <= j]
          ELSE [table |-> Append(table, FreshCooldown(eventId)),
                at |-> Len(table) + 1]

\* The array after the call, and the index (from 1) of the entry returned.
findOrCreateCooldown(table, eventId) ==
    LET found == {i \in 1..Len(table) : table[i].eventId = eventId}
    IN  IF found # {}
          THEN [table |-> table,
                at |-> CHOOSE i \in found : \A j \in found : i <= j]
        ELSE IF Len(table) < MAX_TRACKED_EVENTS
          THEN [table |-> Append(table, FreshCooldown(eventId)),
                at |-> Len(table) + 1]
        ELSE [table |-> [table EXCEPT ![1] = FreshCooldown(eventId)],
              at |-> 1]

\* Mutant: no cooldown between two CLAIM notifications.
canSendClaim_Always(cooldown) == TRUE

canSendNear(cooldown) ==
    Since(cooldown.lastNearNotify) > Units(NEAR_COOLDOWN_MS)

canSendClaim(cooldown) ==
    Since(cooldown.lastClaimNotify) > Units(CLAIM_COOLDOWN_MS)

\* "CLAIM:" + eventId and "NEAR:" + eventId, with the time of the
\* notification.
Message(zone, eventId) == [zone |-> zone, eventId |-> eventId, at |-> now]

notifyPhone(message) ==
    notifications' = IF phoneConnected
                       THEN Append(notifications, message)
                       ELSE notifications

onConnect ==
    /\ ~phoneConnected
    /\ phoneConnected' = TRUE
    /\ led' = "red"
    /\ UNCHANGED <<now, eventCooldowns, loopPc, lastLedReset, notifications>>
    /\ UNCHANGED sightings
    /\ UNCHANGED ledgerVars
    /\ UNCHANGED otherDevices

onDisconnect ==
    /\ phoneConnected
    /\ phoneConnected' = FALSE
    /\ led' = "off"
    /\ UNCHANGED <<now, eventCooldowns, loopPc, lastLedReset, notifications>>
    /\ UNCHANGED sightings
    /\ UNCHANGED ledgerVars
    /\ UNCHANGED otherDevices

\* Mutant: a reading in the Claim zone whose claim cooldown runs is
\* treated as a reading in the Near band.
onResult_Downgrade(rssi) ==
    LET eventId == "EVENT_123"
        found == findOrCreateCooldown(eventCooldowns, eventId)
        cooldown == found.table[found.at]
    IN  /\ loopPc = "scan"
        /\ IF rssi > RSSI_CLAIM /\ canSendClaim(cooldown)
             THEN /\ led' = "green"
                  /\ notifyPhone(Message("CLAIM", eventId))
                  /\ eventCooldowns' =
                         [found.table EXCEPT
                             ![found.at].lastClaimNotify = millis,
                             ![found.at].lastNearNotify = millis]
           ELSE IF rssi > RSSI_NEAR /\ canSendNear(cooldown)
             THEN /\ led' = "yellow"
                  /\ notifyPhone(Message("NEAR", eventId))
                  /\ eventCooldowns' =
                         [found.table EXCEPT
                             ![found.at].lastNearNotify = millis]
           ELSE /\ eventCooldowns' = found.table
                /\ UNCHANGED <<led, notifications>>
        /\ UNCHANGED <<now, phoneConnected, loopPc, lastLedReset>>
        /\ UNCHANGED ledgerVars
        /\ UNCHANGED otherDevices

\* Mutant: a CLAIM notification leaves lastNearNotify alone.
onResult_NoNearRefresh(rssi) ==
    LET eventId == "EVENT_123"
        found == findOrCreateCooldown(eventCooldowns, eventId)
        cooldown == found.table[found.at]
    IN  /\ loopPc = "scan"
        /\ IF rssi > RSSI_CLAIM /\ canSendClaim(cooldown)
             THEN /\ led' = "green"
                  /\ notifyPhone(Message("CLAIM", eventId))
                  /\ eventCooldowns' =
                         [found.table EXCEPT
                             ![found.at].lastClaimNotify = millis]
           ELSE IF rssi <= RSSI_CLAIM /\ rssi > RSSI_NEAR
                   /\ canSendNear(cooldown)
             THEN /\ led' = "yellow"
                  /\ notifyPhone(Message("NEAR", eventId))
                  /\ eventCooldowns' =
                         [found.table EXCEPT
                             ![found.at].lastNearNotify = millis]
           ELSE /\ eventCooldowns' = found.table
                /\ UNCHANGED <<led, notifications>>
        /\ UNCHANGED <<now, phoneConnected, loopPc, lastLedReset>>
        /\ UNCHANGED ledgerVars
        /\ UNCHANGED otherDevices

\* A Business Orb is found by the running scan with signal strength rssi.
\* Every Business Orb is filed under the event id "EVENT_123".
onResult(rssi) ==
    LET eventId == "EVENT_123"
        found == findOrCreateCooldown(eventCooldowns, eventId)
        cooldown == found.table[found.at]
    IN  /\ loopPc = "scan"
        /\ IF rssi > RSSI_CLAIM /\ canSendClaim(cooldown)
             THEN /\ led' = "green"
                  /\ notifyPhone(Message("CLAIM", eventId))
                  /\ eventCooldowns' =
                         [found.table EXCEPT
                             ![found.at].lastClaimNotify = millis,
                             ![found.at].lastNearNotify = millis]
           ELSE IF rssi <= RSSI_CLAIM /\ rssi > RSSI_NEAR
                   /\ canSendNear(cooldown)
             THEN /\ led' = "yellow"
                  /\ notifyPhone(Message("NEAR", eventId))
                  /\ eventCooldowns' =
                         [found.table EXCEPT
                             ![found.at].lastNearNotify = millis]
           ELSE /\ eventCooldowns' = found.table
                /\ UNCHANGED <<led, notifications>>
        /\ UNCHANGED <<now, phoneConnected, loopPc, lastLedReset>>
        /\ UNCHANGED ledgerVars
        /\ UNCHANGED otherDevices

\* loop() starts a scan if a phone is connected.
LoopScan ==
    /\ loopPc = "top"
    /\ loopPc' = IF phoneConnected THEN "scan" ELSE "delay"
    /\ UNCHANGED <<now, eventCooldowns, phoneConnected, led, lastLedReset,
                   notifications>>
    /\ UNCHANGED sightings
    /\ UNCHANGED ledgerVars
    /\ UNCHANGED otherDevices

\* The scan is over.
LoopScanEnd ==
    /\ loopPc = "scan"
    /\ loopPc' = "delay"
    /\ UNCHANGED <<now, eventCooldowns, phoneConnected, led, lastLedReset,
                   notifications>>
    /\ UNCHANGED sightings
    /\ UNCHANGED ledgerVars
    /\ UNCHANGED otherDevices

\* After the delay, loop() resets the LEDs if it has not for 3 seconds.
LoopLedReset ==
    /\ loopPc = "delay"
    /\ loopPc' = "top"
    /\ IF Since(lastLedReset) > Units(3000)
         THEN /\ led' = IF phoneConnected THEN "red" ELSE "off"
              /\ lastLedReset' = millis
         ELSE UNCHANGED <<led, lastLedReset>>
    /\ UNCHANGED <<now, eventCooldowns, phoneConnected, notifications>>
    /\ UNCHANGED sightings
    /\ UNCHANGED ledgerVars
    /\ UNCHANGED otherDevices

\* The clock advances.
Tick ==
    /\ \/ now < MaxTicks * Units(TickMs)
       \/ now >= LongRun /\ now < ULong + MaxTicks * Units(TickMs)
    /\ now' = now + Units(TickMs)
    /\ UNCHANGED <<eventCooldowns, phoneConnected, loopPc, led, lastLedReset,
                   notifications>>
    /\ UNCHANGED sightings
    /\ UNCHANGED ledgerVars
    /\ UNCHANGED otherDevices

\* The device has just been switched on, or it has run for 49 days
\* without a phone.
InitUserOrb ==
    /\ InitLedger({[u \in Users |-> NoDoc]})
    /\ now \in {0, LongRun}
    /\ lastLedReset = IF now = 0 THEN 0 ELSE now - Units(TickMs)
    /\ Setup

NextUserOrb ==
    \/ onConnect
    \/ onDisconnect
    \/ \E rssi \in RssiValues : onResult(rssi) /\ UNCHANGED sightings
    \/ LoopScan
    \/ LoopScanEnd
    \/ LoopLedReset
    \/ Tick

SpecUserOrb == InitUserOrb /\ [][NextUserOrb]_vars

----------------------------------------------------------------------------
(* The User Orb beside one Business Orb whose signal is sampled once a     *)
(* second, from the first sighting on, while the phone stays connected     *)

ReferenceSignal == <<-90, -85, -30, -28, -85>>

\* A recorded sample: the Business Orb found, its signal strength and the
\* time of the callback.
Sighting(device, rssi) == [device |-> device, rssi |-> rssi, at |-> now]

\* The next sample of the reference signal is due at this instant.
Due ==
    /\ sightings # <<>>
    /\ Len(sightings) < Len(ReferenceSignal)
    /\ now = sightings[1].at + Len(sightings) * Units(1000)

\* The scan finds the Business Orb: the first time at any instant, then
\* one second after the sample before.
TraceSample ==
    LET k == Len(sightings) + 1
    IN  /\ k <= Len(ReferenceSignal)
        /\ k > 1 => Due
        /\ onResult(ReferenceSignal[k])
        /\ sightings' = Append(sightings,
                               Sighting("orbA", ReferenceSignal[k]))

\* The clock advances, but not past a sample that is due.
TraceTick == ~Due /\ Tick

NextTrace ==
    \/ onConnect
    \/ LoopScan
    \/ LoopScanEnd
    \/ LoopLedReset
    \/ TraceSample
    \/ TraceTick

SpecTrace == InitUserOrb /\ [][NextTrace]_vars

----------------------------------------------------------------------------
(* The User Orb beside two Business Orbs, with the samples recorded: the   *)
(* phone connects and stays connected, and the scan goes on                *)

MaxSightings == 3    \* recorded samples in one behaviour

Devices == {"orbA", "orbB"}

\* One signal strength of each zone.
ZoneRssi == {-90, -60, -30}

\* The scan finds a Business Orb.  The name of the device is read and then
\* dropped for "EVENT_123": onResult does not depend on it.
SignalSample(device, rssi) ==
    /\ Len(sightings) < MaxSightings
    /\ onResult(rssi)
    /\ sightings' = Append(sightings, Sighting(device, rssi))

NextSignal ==
    \/ onConnect
    \/ LoopScan
    \/ \E device \in Devices, rssi \in ZoneRssi : SignalSample(device, rssi)
    \/ Tick

SpecSignal == InitUserOrb /\ [][NextSignal]_vars

----------------------------------------------------------------------------
(* findOrCreateCooldown alone, called with the event ids of up to twelve   *)
(* Business Orbs on an array that holds any number of entries, one of      *)
(* which may have notified.  The function tells event ids apart by         *)
(* equality only, so it is enough that an id not yet in the array is one   *)
(* of the two first ids that are not.                                      *)

PeerIds ==
    << "EVENT_01", "EVENT_02", "EVENT_03", "EVENT_04", "EVENT_05", "EVENT_06",
       "EVENT_07", "EVENT_08", "EVENT_09", "EVENT_10", "EVENT_11", "EVENT_12" >>

\* The event ids the array holds.
Tracked(table) == {table[i].eventId : i \in 1..Len(table)}

\* The ids a call may bring: those in the array and the next two.
Callable ==
    LET new == {k \in 1..Len(PeerIds) :
                   PeerIds[k] \notin Tracked(eventCooldowns)}
    IN  {PeerIds[k] : k \in {k \in 1..Len(PeerIds) :
            \/ k \notin new
            \/ Cardinality({j \in new : j < k}) < 2}}

\* An array of n entries created in the order of PeerIds, where the entry
\* at `hot` (if any) has notified CLAIM at time `at`.
TableOf(n, hot, at) ==
    [i \in 1..n |->
        [eventId |-> PeerIds[i],
         lastNearNotify |-> IF i = hot THEN at % ULong ELSE 0,
         lastClaimNotify |-> IF i = hot THEN at % ULong ELSE 0]]

Track(eventId) ==
    /\ eventCooldowns' = findOrCreateCooldown(eventCooldowns, eventId).table
    /\ UNCHANGED <<now, phoneConnected, loopPc, led, lastLedReset,
                   notifications, sightings>>
    /\ UNCHANGED ledgerVars
    /\ UNCHANGED otherDevices

InitTable ==
    /\ InitLedger({[u \in Users |-> NoDoc]})
    /\ now = Units(6000)
    /\ \E n \in 0..MAX_TRACKED_EVENTS, hot \in 0..MAX_TRACKED_EVENTS :
          /\ hot <= n
          /\ eventCooldowns = TableOf(n, hot, now)
    /\ phoneConnected = TRUE
    /\ loopPc = "scan"
    /\ led = "red"
    /\ lastLedReset = 0
    /\ notifications = <<>>
    /\ sightings = <<>>
    /\ Elsewhere

NextTable == \E eventId \in Callable : Track(eventId)

SpecTable == InitTable /\ [][NextTable]_vars

----------------------------------------------------------------------------
(* The standalone user device (unnamed/part_000) connected to the company  *)
(* device (src/Company.cpp).  A text is the sequence of its words, a       *)
(* number in it the sequence of its characters.                            *)

MaxSessions == 3

\* pointsToGive as the company device is built, and a build that gives.
PointsToGiveValues == {-3, 5}

\* The RSSI the scan sees, and the RSSI the client reads while connected.
ScanRssi == {-65, -80}
PairRssi == {-10, -40, -80}

Digits == <<"0", "1", "2", "3", "4", "5", "6", "7", "8", "9">>

IsDigit(c) == \E d \in 1..10 : Digits[d] = c

DigitValue(c) == (CHOOSE d \in 1..10 : Digits[d] = c) - 1

RECURSIVE DecimalOf(_)
DecimalOf(n) ==
    IF n < 10 THEN <<Digits[n + 1]>>
    ELSE Append(DecimalOf(n \div 10), Digits[(n % 10) + 1])

\* String(n)
String(n) == IF n < 0 THEN <<"-">> \o DecimalOf(0 - n) ELSE DecimalOf(n)

RECURSIVE ReadDigits(_, _)
ReadDigits(s, acc) ==
    IF s = <<>> \/ ~ IsDigit(Head(s)) THEN acc
    ELSE ReadDigits(Tail(s), 10 * acc + DigitValue(Head(s)))

\* String::toInt() and atoi(): an optional sign, then the digits up to the
\* first other character; 0 when there is none.
toInt(s) ==
    IF s # <<>> /\ Head(s) = "-" THEN 0 - ReadDigits(Tail(s), 0)
    ELSE ReadDigits(s, 0)

\* message.indexOf(word) != -1, and message.substring(indexOf(word) + length)
Contains(message, word) == \E i \in DOMAIN message : message[i] = word

After(message, word) ==
    LET i == CHOOSE k \in DOMAIN message :
                 /\ message[k] = word
                 /\ \A l \in 1..(k - 1) : message[l] # word
    IN SubSeq(message, i + 1, Len(message))

\* MyCharacteristicCallbacks::onWrite of the company device: the response
\* it sets and notifies for the value written.
onWrite(value) ==
    LET rssi == toInt(value)
    IN IF rssi > -20
         THEN <<"DATA_PACKET:", "ULTRA_CLOSE_PROXIMITY", "|", "POINTS:">>
                  \o String(pointsToGive)
       ELSE IF rssi > -60 THEN <<"DATA_PACKET:", "STANDARD_ZONE">>
       ELSE <<"DATA_PACKET:", "WEAK_SIGNAL_IDLE">>

\* Mutant: the adjustment made whether or not one was made before.
notifyCallback_NoGate(message) ==
    IF Contains(message, "ULTRA_CLOSE_PROXIMITY") \/ firstmessage
      THEN /\ IF Contains(message, "POINTS:")
                THEN LET receivedPoints == toInt(After(message, "POINTS:"))
                     IN /\ userPoints' = IF userPoints + receivedPoints < 0
                                           THEN 0
                                           ELSE userPoints + receivedPoints
                        /\ pointAwarded' = TRUE
                ELSE UNCHANGED <<userPoints, pointAwarded>>
           /\ firstmessage' = FALSE
      ELSE UNCHANGED <<userPoints, pointAwarded, firstmessage>>

\* notifyCallback of the user device.
notifyCallback(message) ==
    IF Contains(message, "ULTRA_CLOSE_PROXIMITY") \/ firstmessage
      THEN /\ IF Contains(message, "POINTS:") /\ ~ pointAwarded
                THEN LET receivedPoints == toInt(After(message, "POINTS:"))
                     IN /\ userPoints' = IF userPoints + receivedPoints < 0
                                           THEN 0
                                           ELSE userPoints + receivedPoints
                        /\ pointAwarded' = TRUE
                ELSE UNCHANGED <<userPoints, pointAwarded>>
           /\ firstmessage' = FALSE
      ELSE UNCHANGED <<userPoints, pointAwarded, firstmessage>>

\* MyAdvertisedDeviceCallbacks::onResult for an advertisement of
\* COMPANY_DEVICE, while the scan runs.
onAdvertised(rssi) ==
    /\ ~ doConnect
    /\ ~ inWhile
    /\ sessions < MaxSessions
    /\ rssi > -70
    /\ firstmessage' = TRUE
    /\ doConnect' = TRUE
    /\ UNCHANGED <<userPoints, pointAwarded, inWhile, linked, notice,
                   pointsToGive, sessions>>
    /\ UNCHANGED <<ledgerVars, orbVars, hookVars>>

\* loop(): pClient->connect(targetDevice) succeeds, the client subscribes
\* and enters its while loop.
loopConnect ==
    /\ doConnect
    /\ ~ inWhile
    /\ inWhile' = TRUE
    /\ linked' = TRUE
    /\ sessions' = sessions + 1
    /\ UNCHANGED <<userPoints, pointAwarded, firstmessage, doConnect, notice,
                   pointsToGive>>
    /\ UNCHANGED <<ledgerVars, orbVars, hookVars>>

\* One round of the while loop: the client writes its RSSI, the company
\* device answers in onWrite and notifies its response.
loopReport(rssi) ==
    /\ inWhile
    /\ linked
    /\ notice = <<>>
    /\ notice' = onWrite(String(rssi))
    /\ UNCHANGED <<userPoints, pointAwarded, firstmessage, doConnect, inWhile,
                   linked, pointsToGive, sessions>>
    /\ UNCHANGED <<ledgerVars, orbVars, hookVars>>

\* The notification arrives: notifyCallback runs on it.
Notify ==
    /\ linked
    /\ notice # <<>>
    /\ notifyCallback(notice)
    /\ notice' = <<>>
    /\ UNCHANGED <<doConnect, inWhile, linked, pointsToGive, sessions>>
    /\ UNCHANGED <<ledgerVars, orbVars, hookVars>>

\* The connection drops; a response not yet notified is lost.
linkDrop ==
    /\ linked
    /\ linked' = FALSE
    /\ notice' = <<>>
    /\ UNCHANGED <<userPoints, pointAwarded, firstmessage, doConnect, inWhile,
                   pointsToGive, sessions>>
    /\ UNCHANGED <<ledgerVars, orbVars, hookVars>>

\* loop() after the while loop has ended, or after connect() has failed:
\* pointAwarded = false, doConnect = false, the scan starts again.
loopCleanup ==
    /\ doConnect
    /\ ~ linked
    /\ pointAwarded' = FALSE
    /\ doConnect' = FALSE
    /\ inWhile' = FALSE
    /\ UNCHANGED <<userPoints, firstmessage, linked, notice, pointsToGive,
                   sessions>>
    /\ UNCHANGED <<ledgerVars, orbVars, hookVars>>

InitPair ==
    /\ InitLedger({[u \in Users |-> NoDoc]})
    /\ now = 0
    /\ lastLedReset = 0
    /\ eventCooldowns = <<>>
    /\ phoneConnected = FALSE
    /\ loopPc = "top"
    /\ led = "off"
    /\ notifications = <<>>
    /\ sightings = <<>>
    /\ PairSetup
    /\ pointsToGive \in PointsToGiveValues
    /\ HookMounted

NextPair ==
    \/ \E rssi \in ScanRssi : onAdvertised(rssi)
    \/ loopConnect
    \/ \E rssi \in PairRssi : loopReport(rssi)
    \/ Notify
    \/ linkDrop
    \/ loopCleanup

SpecPair == InitPair /\ [][NextPair]_vars

----------------------------------------------------------------------------
(* The hook useOrbConnection (hooks/useOrbConnection.ts), with an Orb      *)
(* paired (storedOrbId set) and the BLE manager created                    *)

MaxTimers == 3
MaxConnecting == 2

\* connectToStoredOrb() up to its await of manager.connectToDevice: it
\* returns when deviceRef.current is set (`deviceRef.current?.isConnected`
\* is the method of the device, which is truthy), else it starts one more
\* connection attempt.  ref is deviceRef.current when it is called.
connectToStoredOrb(ref) ==
    IF ref # "null" THEN UNCHANGED connecting
    ELSE /\ connecting < MaxConnecting
         /\ connecting' = connecting + 1

\* reconnectTimeoutRef.current = setTimeout(() => connectToStoredOrb(), ...):
\* a new timer is armed and the reference moved to it; the timer it
\* referred to before is not cleared.
ArmReconnect ==
    /\ nextTimer <= MaxTimers
    /\ timers' = timers \cup {nextTimer}
    /\ reconnectTimeoutRef' = nextTimer
    /\ nextTimer' = nextTimer + 1

\* connect() of the screen, or the effect that connects automatically.
connect ==
    /\ connectToStoredOrb(deviceRef)
    /\ released' = FALSE
    /\ UNCHANGED <<deviceRef, subscriptionRef, reconnectTimeoutRef, timers,
                   nextTimer, orbLink, listeners, cancelling>>
    /\ UNCHANGED <<ledgerVars, orbVars, pairVars>>

\* The awaited connection is made: the device is kept, the notifications
\* are subscribed to, the onDisconnected listener is registered.
connectResolved ==
    /\ connecting > 0
    /\ ~ orbLink
    /\ listeners = 0
    /\ connecting' = connecting - 1
    /\ orbLink' = TRUE
    /\ deviceRef' = "device"
    /\ subscriptionRef' = TRUE
    /\ listeners' = 1
    /\ UNCHANGED <<reconnectTimeoutRef, timers, nextTimer, cancelling,
                   released>>
    /\ UNCHANGED <<ledgerVars, orbVars, pairVars>>

\* The awaited connection fails (time-out, device not found, device
\* already connected): the catch block arms the retry in 10 s.
connectRejected ==
    /\ connecting > 0
    /\ connecting' = connecting - 1
    /\ ArmReconnect
    /\ UNCHANGED <<deviceRef, subscriptionRef, orbLink, listeners, cancelling,
                   released>>
    /\ UNCHANGED <<ledgerVars, orbVars, pairVars>>

\* The BLE connection ends: the Orb is out of reach or switched off, or
\* cancelConnection() takes effect.
linkDown ==
    /\ orbLink
    /\ orbLink' = FALSE
    /\ UNCHANGED <<deviceRef, subscriptionRef, reconnectTimeoutRef, timers,
                   nextTimer, connecting, listeners, cancelling, released>>
    /\ UNCHANGED <<ledgerVars, orbVars, pairVars>>

\* The listener given to device.onDisconnected runs: deviceRef.current =
\* null, and the reconnection in 5 s is armed.
onDisconnected ==
    /\ ~ orbLink
    /\ listeners > 0
    /\ listeners' = 0
    /\ deviceRef' = "null"
    /\ ArmReconnect
    /\ UNCHANGED <<subscriptionRef, connecting, orbLink, cancelling, released>>
    /\ UNCHANGED <<ledgerVars, orbVars, pairVars>>

\* An armed timer expires: connectToStoredOrb() is called.
timerFires(id) ==
    /\ id \in timers
    /\ timers' = timers \ {id}
    /\ connectToStoredOrb(deviceRef)
    /\ UNCHANGED <<deviceRef, subscriptionRef, reconnectTimeoutRef, nextTimer,
                   orbLink, listeners, cancelling, released>>
    /\ UNCHANGED <<ledgerVars, orbVars, pairVars>>

\* disconnect() up to its await: the timer referred to is cleared, the
\* subscription removed; without a device it is over at once.
disconnect ==
    /\ cancelling = "no"
    /\ timers' = timers \ {reconnectTimeoutRef}
    /\ reconnectTimeoutRef' = 0
    /\ subscriptionRef' = FALSE
    /\ IF deviceRef # "null"
         THEN cancelling' = "disconnect" /\ UNCHANGED released
         ELSE released' = TRUE /\ UNCHANGED cancelling
    /\ UNCHANGED <<deviceRef, nextTimer, connecting, orbLink, listeners>>
    /\ UNCHANGED <<ledgerVars, orbVars, pairVars>>

\* reconnect(): disconnect().then(() => connectToStoredOrb()).
reconnect ==
    /\ cancelling = "no"
    /\ timers' = timers \ {reconnectTimeoutRef}
    /\ reconnectTimeoutRef' = 0
    /\ subscriptionRef' = FALSE
    /\ released' = FALSE
    /\ IF deviceRef # "null"
         THEN cancelling' = "reconnect" /\ UNCHANGED connecting
         ELSE connectToStoredOrb(deviceRef) /\ UNCHANGED cancelling
    /\ UNCHANGED <<deviceRef, nextTimer, orbLink, listeners>>
    /\ UNCHANGED <<ledgerVars, orbVars, pairVars>>

\* cancelConnection() has resolved, or was rejected because the device was
\* disconnected already: deviceRef.current = null and disconnect() is over;
\* reconnect() goes on with connectToStoredOrb().
disconnectDone ==
    /\ cancelling # "no"
    /\ ~ orbLink
    /\ deviceRef' = "null"
    /\ cancelling' = "no"
    /\ IF cancelling = "reconnect"
         THEN connectToStoredOrb("null") /\ UNCHANGED released
         ELSE released' = TRUE /\ UNCHANGED connecting
    /\ UNCHANGED <<subscriptionRef, reconnectTimeoutRef, timers, nextTimer,
                   orbLink, listeners>>
    /\ UNCHANGED <<ledgerVars, orbVars, pairVars>>

InitHook ==
    /\ InitLedger({[u \in Users |-> NoDoc]})
    /\ now = 0
    /\ lastLedReset = 0
    /\ eventCooldowns = <<>>
    /\ phoneConnected = FALSE
    /\ loopPc = "top"
    /\ led = "off"
    /\ notifications = <<>>
    /\ sightings = <<>>
    /\ PairSetup
    /\ pointsToGive = -3
    /\ HookMounted

NextHook ==
    \/ connect
    \/ connectResolved
    \/ connectRejected
    \/ linkDown
    \/ onDisconnected
    \/ \E id \in 1..MaxTimers : timerFires(id)
    \/ disconnect
    \/ reconnect
    \/ disconnectDone

SpecHook == InitHook /\ [][NextHook]_vars

----------------------------------------------------------------------------
(* Properties of the cloud function awardPoints *)

RECURSIVE SumPoints(_)
SumPoints(S) ==
    IF S = {} THEN 0
    ELSE LET e == CHOOSE x \in S : TRUE
         IN EventDocs[e].points + SumPoints(S \ {e})

\* The earn records of the transactions collection for user u and event e.
EarnRecords(u, e) ==
    {i \in 1..Len(transactions) :
        LET r == transactions[i]
        IN "eventId" \in DOMAIN r /\ r.type = "earn"
           /\ r.userId = u /\ r.eventId = e}

Settled(u, e) == EarnRecords(u, e) # {}

SettledEvents(u) == {e \in DOMAIN EventDocs : Settled(u, e)}

TotalEarned(u) == OrZero(users[u], "totalPointsEarned")

Wallet(u) == IF Exists(users[u]) /\ Has(users[u], "pointsWallet")
               THEN users[u].pointsWallet ELSE EmptyObj

OrgBalance(u, o) == OrZero(Wallet(u), o)

IsAward(p) == call[p].op = "awardPoints"

\* The call passed the checks made before the transaction.
Admitted(p) == IsAward(p) /\ call[p].auth = call[p].userId

\* In this step call p ran the update function of its transaction.
RanUpdate(p) == attempts'[p] = attempts[p] + 1

\* C1: whatever the interleaving of awardPoints calls, a (user, event) pair
\* has at most one earn record, and the user's totalPointsEarned and wallet
\* hold the points of every settled event exactly once.
C1_ExactlyOnce ==
    \A u \in Users :
        /\ \A e \in EventIds : Cardinality(EarnRecords(u, e)) <= 1
        /\ TotalEarned(u) = SumPoints(SettledEvents(u))
        /\ OrgBalance(u, "A") + OrgBalance(u, "B") = SumPoints(SettledEvents(u))

\* Two calls for the same pair raced: the second passed the existing-record
\* check before the first had committed, and had to run again.
C1_Witness ==
    \E p, q \in Procs :
        /\ p # q /\ pc[p] = "done" /\ pc[q] = "done"
        /\ Admitted(p) /\ Admitted(q)
        /\ call[p].userId = call[q].userId /\ call[p].eventId = call[q].eventId
        /\ result[p].status = "ok"
        /\ attempts[q] = 2
        /\ Cardinality(EarnRecords(call[p].userId, call[p].eventId)) = 1

C5_RecordWithCredit ==
    [][LET n == Len(transactions)
       IN \/ /\ transactions' = transactions
             /\ users' = users
          \/ /\ Len(transactions') = n + 1
             /\ SubSeq(transactions', 1, n) = transactions
             /\ LET r == transactions'[n + 1]
                    u == r.userId
                    w == IF Has(users[u], "pointsWallet")
                           THEN users[u].pointsWallet ELSE EmptyObj
                IN /\ r.type = "earn"
                   /\ Exists(users[u])
                   /\ users' = [users EXCEPT ![u] =
                        Put(Put(@, "pointsWallet",
                                Put(w, r.destination,
                                    OrZero(w, r.destination) + r.pointsEarned)),
                            "totalPointsEarned",
                            OrZero(@, "totalPointsEarned") + r.pointsEarned)]]_vars

\* A record was committed in a behaviour where another call failed at its
\* commit or had to run again.
C5_Witness ==
    /\ Len(transactions) >= 1
    /\ \E p \in Procs :
          /\ pc[p] = "done" /\ Admitted(p)
          /\ \/ result[p].status = "error" /\ result[p].code = "internal"
             \/ attempts[p] >= 2

PreferredStore(u) ==
    IF Exists(users[u]) /\ Has(users[u], "preferredStore")
      THEN users[u].preferredStore ELSE None

NoOrganization ==
    Err("failed-precondition", "Event has no associated organization.")

NoHostBusinessEvent(c) ==
    /\ c.eventId \in DOMAIN EventDocs
    /\ ~ IsVolunteer(EventDocs[c.eventId])
    /\ EventDocs[c.eventId].hostOrgId = None

\* C10: a run of awardPoints for a non-volunteer event without hostOrgId
\* ends with failed-precondition and that step writes nothing; no call for
\* such an event ever has an open transaction or a record.
C10_InvalidEvent ==
    /\ [][\A p \in Procs :
            (RanUpdate(p) /\ NoHostBusinessEvent(call'[p]))
            => /\ pc'[p] = "done"
               /\ result'[p].status = "error"
               /\ result'[p].code = "failed-precondition"
               /\ users' = users
               /\ transactions' = transactions]_vars
    /\ [](\A p \in Procs :
            (pc[p] # "idle" /\ Admitted(p) /\ NoHostBusinessEvent(call[p]))
            => /\ pc[p] = "done"
               /\ result[p].code = "failed-precondition"
               /\ ~ Settled(call[p].userId, call[p].eventId))

C10_Witness ==
    \E p \in Procs :
        /\ pc[p] = "done" /\ Admitted(p) /\ NoHostBusinessEvent(call[p])
        /\ result[p] = NoOrganization
        /\ Exists(users[call[p].userId])

----------------------------------------------------------------------------
(* Properties of the whole ledger *)

\* The interaction a record settles: the event, reward, deal or orb.
InteractionId(r) ==
    IF Has(r, "eventId") THEN r.eventId
    ELSE IF Has(r, "rewardId") THEN r.rewardId
    ELSE IF Has(r, "dealId") THEN r.dealId
    ELSE IF Has(r, "orbId") THEN r.orbId
    ELSE None

\* C3 as claimed: no two records of the transactions collection have the
\* same user, interaction and direction.
C3_UniqueInteraction ==
    \A i, j \in 1..Len(transactions) :
        (i < j /\ InteractionId(transactions[i]) # None)
        => ~ /\ transactions[i].userId = transactions[j].userId
             /\ transactions[i].type = transactions[j].type
             /\ InteractionId(transactions[i]) = InteractionId(transactions[j])

\* Every number stored in wallet w: its own entries and those of its pools.
Balances(w) ==
    {w[k] : k \in (DOMAIN w) \ {"locked", "designated"}}
        \cup (IF Has(w, "locked")
                THEN {w.locked[o] : o \in DOMAIN w.locked} ELSE {})
        \cup (IF Has(w, "designated")
                THEN {w.designated[o] : o \in DOMAIN w.designated} ELSE {})

\* C4 as claimed: no balance of any wallet is ever negative.
C4_NonNegative ==
    \A u \in Users : \A b \in Balances(Wallet(u)) : b = NaN \/ b >= 0

\* What record r says user u earned (claimPoints, cloud awardPoints) and
\* spent (redeemReward).
EarnOf(r, u) ==
    IF r.userId # u \/ r.type # "earn" THEN 0
    ELSE IF Has(r, "orbId") THEN r.amount
    ELSE IF Has(r, "eventId") THEN r.pointsEarned
    ELSE 0

SpendOf(r, u) ==
    IF r.userId = u /\ r.type = "spend" /\ Has(r, "rewardId")
      THEN r.amount ELSE 0

RECURSIVE EarnedUpTo(_, _)
EarnedUpTo(u, n) ==
    IF n = 0 THEN 0 ELSE EarnedUpTo(u, n - 1) + EarnOf(transactions[n], u)

RECURSIVE SpentUpTo(_, _)
SpentUpTo(u, n) ==
    IF n = 0 THEN 0 ELSE SpentUpTo(u, n - 1) + SpendOf(transactions[n], u)

\* C6 as claimed: in every state the earn and spend counters of a user
\* document are matched by the records of the transactions collection.
C6_RecordWithMutation ==
    \A u \in Users :
        /\ TotalEarned(u) = EarnedUpTo(u, Len(transactions))
        /\ OrZero(users[u], "totalPointsSpent")
             = SpentUpTo(u, Len(transactions))

\* The places of a user document that hold points.
Slots ==
    {<<"wallet", k>> : k \in Orgs \cup {"universal"}}
        \cup {<<pool, o>> : pool \in {"locked", "designated"}, o \in Orgs}
        \cup {<<"doc", k>> : k \in {"totalPointsEarned", "totalPointsSpent"}}

\* The number document d holds at slot s (0 when there is none).
SlotValue(d, s) ==
    LET w == WalletOrEmpty(d)
    IN CASE s[1] = "doc" -> IF Has(d, s[2]) THEN d[s[2]] ELSE 0
         [] s[1] = "wallet" -> IF Has(w, s[2]) THEN w[s[2]] ELSE 0
         [] OTHER -> IF Has(w, s[1]) /\ Has(w[s[1]], s[2])
                       THEN w[s[1]][s[2]] ELSE 0

\* What the operation of call p, with the split it computed, adds to slot s.
Delta(p, s) ==
    LET c == call[p]
    IN CASE c.op = "awardPoints" ->
              IF s \in {<<"wallet", snap[p].transactionData.destination>>,
                        <<"doc", "totalPointsEarned">>}
                THEN EventDocs[c.eventId].points ELSE 0
         [] c.op = "redeemReward" ->
              IF s = <<"wallet", "universal">> THEN 0 - c.rewardCost
              ELSE IF s = <<"doc", "totalPointsSpent">> THEN c.rewardCost
              ELSE 0
         [] c.op = "redeemDeal" ->
              IF s = <<"locked", c.orgId>> THEN 0 - snap[p].lockedSpent
              ELSE IF s = <<"designated", c.orgId>>
                THEN 0 - snap[p].designatedSpent
              ELSE 0

\* The settlements that the claim of lost-update freedom is about.
SettlementOps == {"awardPoints", "redeemDeal", "redeemReward"}

CommitPcs == {"aw_commit", "rd_commit", "rr_commit"}

\* C7: the commit of an award of the cloud function, of redeemDeal or of
\* redeemReward changes every balance and counter of its user by what the
\* settlement earns or spends, counted from the value the document holds
\* when the commit is applied, and changes no other user; so whatever
\* settlements overlap, the balances are the initial ones plus the committed
\* earns minus the committed spends.
C7_NoLostUpdate ==
    [][\A p \in Procs :
          (call[p].op \in SettlementOps /\ pc[p] \in CommitPcs
             /\ users' # users /\ pc'[p] # pc[p])
          => /\ \A s \in Slots :
                   SlotValue(users'[call[p].userId], s)
                     = JsAdd(SlotValue(users[call[p].userId], s), Delta(p, s))
             /\ \A u \in Users \ {call[p].userId} : users'[u] = users[u]]_vars

\* Settlements of different kinds for one user overlapped: an award of the
\* cloud function and a spend both committed, one of them on a later run.
C7_Witness ==
    \E p, q \in Procs :
        /\ call[p].op = "awardPoints" /\ result[p].status = "ok"
        /\ call[q].op \in {"redeemDeal", "redeemReward"}
        /\ result[q].status = "ok"
        /\ call[p].userId = call[q].userId
        /\ attempts[p] + attempts[q] >= 3

----------------------------------------------------------------------------
(* Properties of the spends *)

IsSpend(c) == c.op \in {"redeemReward", "redeemDeal"}

\* The cost argument of a spend.
Cost(c) == IF c.op = "redeemReward" THEN c.rewardCost ELSE c.cost

\* The amount a spend record carries.
RecordCost(r) == IF Has(r, "dealId") THEN r.pointsSpent ELSE r.amount

\* C11 as claimed: a spend of cost zero is rejected when it is made, so it
\* never waits for a commit and never ends well, and no spend record has
\* the amount zero.
C11_ZeroRejected ==
    /\ \A p \in Procs :
          (IsSpend(call[p]) /\ Cost(call[p]) = 0)
          => (pc[p] = "done" /\ result[p].status = "error")
    /\ \A i \in DOMAIN transactions :
          transactions[i].type = "spend" => RecordCost(transactions[i]) # 0

\* What the spend c may draw from in the users collection as it is:
\* the universal entry (redeemReward), the locked and designated entries
\* of the organization (redeemDeal).
Available(c) ==
    LET w == WalletOrEmpty(users[c.userId])
    IN IF c.op = "redeemReward" THEN OrZero(w, "universal")
       ELSE (IF Has(w, "locked") THEN OrZero(w.locked, c.orgId) ELSE 0)
          + (IF Has(w, "designated") THEN OrZero(w.designated, c.orgId) ELSE 0)

IsInsufficient(r) == r.status = "error" /\ Has(r, "need")

RewardCall(u, pointCost) ==
    [op |-> "redeemReward", userId |-> u, orbId |-> "DEMO_ORB",
     rewardCost |-> pointCost, rewardId |-> "reward_1"]

\* C13 as claimed: when the pre-check of the Orb hub rejects a reward on a
\* wallet without negative balances, the points it says are missing are
\* the cost minus what redeemReward may draw from; and the error of the
\* ledger names the cost and a balance below it.
C13_ExactShortfall ==
    /\ \A pointCost \in DEMO_REWARDS :
          LET r == handleSelectReward(WalletOrEmpty(users["u1"]), pointCost)
          IN (r.mode = "error" /\ \A b \in Balances(Wallet("u1")) : b >= 0)
             => r.needMore = pointCost - Available(RewardCall("u1", pointCost))
    /\ \A p \in Procs :
          (IsSpend(call[p]) /\ IsInsufficient(result[p]))
          => /\ result[p].need = Cost(call[p])
             /\ result[p].have < result[p].need

\* The balance of organization o in a pool of the wallet of document d.
PoolBalance(d, pool, o) ==
    LET w == WalletOrEmpty(d)
    IN IF Has(w, pool) THEN OrZero(w[pool], o) ELSE 0

\* C14 as claimed: redeemDeal is rejected exactly when the locked and the
\* designated points of the organization together are below the cost; the
\* commit of an accepted deal takes min(locked, cost) from the locked pool
\* and the rest of the cost from the designated pool, and the record
\* carries the cost and that split.
C14_MultiPoolSplit ==
    [][\A p \in Procs :
          call'[p].op = "redeemDeal"
          => LET c == call'[p]
                 lockedPoints == PoolBalance(users[c.userId], "locked", c.orgId)
                 designatedPoints ==
                     PoolBalance(users[c.userId], "designated", c.orgId)
                 fromLocked == Min(lockedPoints, c.cost)
             IN /\ RanUpdate(p)
                   => (pc'[p] = "done"
                         <=> lockedPoints + designatedPoints < c.cost)
                /\ (pc[p] = "rd_commit" /\ pc'[p] = "rd_addDoc")
                   => /\ snap'[p].lockedSpent = fromLocked
                      /\ snap'[p].designatedSpent = c.cost - fromLocked
                      /\ PoolBalance(users'[c.userId], "locked", c.orgId)
                           = lockedPoints - fromLocked
                      /\ PoolBalance(users'[c.userId], "designated", c.orgId)
                           = designatedPoints - (c.cost - fromLocked)
                /\ (pc[p] = "rd_addDoc" /\ pc'[p] = "done"
                      /\ transactions' # transactions)
                   => LET r == transactions'[Len(transactions')]
                      IN /\ r.pointsSpent = c.cost
                         /\ r.breakdown.locked = snap[p].lockedSpent
                         /\ r.breakdown.designated = snap[p].designatedSpent
                         /\ r.breakdown.locked + r.breakdown.designated
                              = c.cost]_vars

\* The organization a spend is made at.
SpentAt(c) ==
    IF c.op = "redeemReward" THEN getOrgFromOrbId(c.orbId).orgId ELSE c.orgId

\* The mappings of a wallet: the wallet itself and its two pools.
Mappings(w) ==
    {w} \cup (IF Has(w, "locked") THEN {w.locked} ELSE {})
        \cup (IF Has(w, "designated") THEN {w.designated} ELSE {})

\* C15 as claimed: once the wallet transaction of a spend has committed, no
\* mapping of the wallet of the spending user has an entry with the value
\* zero for the organization spent at.
C15_NoZeroEntry ==
    [][\A p \in Procs :
          (IsSpend(call[p]) /\ pc[p] \in {"rd_commit", "rr_commit"}
             /\ pc'[p] \in {"rd_addDoc", "rr_addDoc"})
          => \A m \in Mappings(WalletOrEmpty(users'[call[p].userId])) :
                ~ (Has(m, SpentAt(call[p])) /\ m[SpentAt(call[p])] = 0)]_vars

----------------------------------------------------------------------------
(* Frame of an earn of the cloud function *)

----------------------------------------------------------------------------
(* Balances and counters of the Orb hub *)

\* The account keys of a wallet: its entries that are not pools.
AccountKeys(w) == (DOMAIN w) \ {"locked", "designated"}

\* C17 as claimed: after any claimPoints and redeemReward calls the
\* balances of a wallet add up to totalPointsEarned minus
\* totalPointsSpent, and the commit of a claim at the orb of an
\* organization leaves the universal entry as it was.
C17_BalancesMatchCounters ==
    /\ [](\A u \in Users :
             SumBalances(Wallet(u), AccountKeys(Wallet(u)))
               = TotalEarned(u) - OrZero(users[u], "totalPointsSpent"))
    /\ [][\A p \in Procs :
             (pc[p] = "cp_commit" /\ pc'[p] = "cp_addDoc"
                /\ getOrgFromOrbId(call[p].orbId).orgId # "universal")
             => OrZero(WalletOrEmpty(users'[call[p].userId]), "universal")
                  = OrZero(WalletOrEmpty(users[call[p].userId]),
                           "universal")]_vars

----------------------------------------------------------------------------
(* Properties of the User Orb *)

\* The notifications of one zone for one event id, as positions of the
\* messages notified to the phone.
Notified(zone, eventId) ==
    {i \in 1..Len(notifications) :
        /\ notifications[i].zone = zone
        /\ notifications[i].eventId = eventId}

\* The cooldown of a zone, in units of the clock.
Cooldown(zone) ==
    IF zone = "CLAIM" THEN Units(CLAIM_COOLDOWN_MS)
                      ELSE Units(NEAR_COOLDOWN_MS)

\* C18: whatever the samples of a Business Orb, any two CLAIM notifications
\* for it are more than CLAIM_COOLDOWN_MS apart, and any two NEAR
\* notifications for it are more than NEAR_COOLDOWN_MS apart.
C18_CooldownSpacing ==
    \A zone \in {"CLAIM", "NEAR"} :
        \A i, j \in Notified(zone, "EVENT_123") :
            i < j => notifications[j].at - notifications[i].at
                         > Cooldown(zone)

\* The signal has gone from the Claim zone to the Near band and back, and
\* each of the three samples has notified the phone.
C18_Witness ==
    \E i, k \in Notified("CLAIM", "EVENT_123") :
        \E j \in Notified("NEAR", "EVENT_123") : i < j /\ j < k

\* No sample of the event id has been filed yet: findOrCreateCooldown
\* creates its entry.
NeverSeen(eventId) ==
    \A i \in 1..trackedEventCount : eventCooldowns[i].eventId # eventId

\* The step notifies the phone of the zone.
Notifies(zone, eventId) ==
    notifications' = Append(notifications, Message(zone, eventId))

\* C19: the first sample of an event id never seen before notifies the
\* connected phone at once, whatever the time since the device started:
\* of CLAIM if it is above the Claim threshold, of NEAR if it is in the
\* Near band.
C19_FirstSighting ==
    [][\A rssi \in RssiValues :
          NeverSeen("EVENT_123") /\ phoneConnected /\ onResult(rssi)
              => /\ rssi > RSSI_CLAIM => Notifies("CLAIM", "EVENT_123")
                 /\ rssi <= RSSI_CLAIM /\ rssi > RSSI_NEAR
                        => Notifies("NEAR", "EVENT_123")]_vars

\* The entry of the event id in the array.
Entry(table, eventId) ==
    table[CHOOSE i \in 1..Len(table) : table[i].eventId = eventId]

\* C20: a CLAIM notification for an event at time t sets lastClaimNotify
\* and lastNearNotify of the event to t, and no NEAR notification for the
\* event follows until more than NEAR_COOLDOWN_MS after t.
C20_ClaimRefreshesNear ==
    /\ [](\A i \in Notified("CLAIM", "EVENT_123") :
            \A j \in Notified("NEAR", "EVENT_123") :
                i < j => notifications[j].at - notifications[i].at
                             > Units(NEAR_COOLDOWN_MS))
    /\ [][Notifies("CLAIM", "EVENT_123")
            => /\ Entry(eventCooldowns', "EVENT_123").lastClaimNotify
                      = millis
               /\ Entry(eventCooldowns', "EVENT_123").lastNearNotify
                      = millis]_vars

\* A NEAR notification, a CLAIM notification before the near cooldown of
\* the first has elapsed, and the next NEAR notification.
C20_Witness ==
    \E h, j \in Notified("NEAR", "EVENT_123") :
        \E i \in Notified("CLAIM", "EVENT_123") :
            /\ h < i /\ i < j
            /\ notifications[i].at - notifications[h].at
                   <= Units(NEAR_COOLDOWN_MS)

\* The time stamps of the event id in the array: those of a fresh entry if
\* it has none.
Stamps(table, eventId) ==
    IF \E i \in 1..Len(table) : table[i].eventId = eventId
      THEN Entry(table, eventId)
      ELSE FreshCooldown(eventId)

\* C23: the time stamps of an event change only in a step that notifies
\* the phone: a sample taken while the cooldown runs or while no phone is
\* connected leaves both unchanged, and a NEAR notification leaves
\* lastClaimNotify unchanged.
C23_StampOnlyOnEmission ==
    [][/\ notifications' = notifications
           => Stamps(eventCooldowns', "EVENT_123")
                  = Stamps(eventCooldowns, "EVENT_123")
       /\ Notifies("NEAR", "EVENT_123")
           => Stamps(eventCooldowns', "EVENT_123").lastClaimNotify
                  = Stamps(eventCooldowns, "EVENT_123").lastClaimNotify]_vars

----------------------------------------------------------------------------
(* Properties of the User Orb on the reference signal *)

\* The zones notified to the phone, each with the time since the first
\* sample, in seconds.
Events ==
    [i \in 1..Len(notifications) |->
        [zone |-> notifications[i].zone,
         t |-> (notifications[i].at - sightings[1].at) \div Units(1000)]]

ColdClock(at) == at % ULong <= Units(CLAIM_COOLDOWN_MS)

----------------------------------------------------------------------------
(* Properties of the User Orb on recorded samples *)

Zone(rssi) ==
    IF rssi > RSSI_CLAIM THEN "CLAIM"
    ELSE IF rssi > RSSI_NEAR THEN "NEAR"
    ELSE "IDLE"

\* The recorded samples of a device, as positions in the record.
SamplesOf(device) ==
    {i \in 1..Len(sightings) : sightings[i].device = device}

\* The step records a sample, given as the record it adds.
Sampled(s) == sightings' = Append(sightings, s)

\* C22: a sample of a Business Orb notifies the phone only if its zone
\* differs from the zone of the previous sample of that Business Orb: a
\* signal that stays in one zone notifies once.
C22_OnlyOnZoneChange ==
    [][\A device \in Devices, rssi \in ZoneRssi :
          /\ Sampled(Sighting(device, rssi))
          /\ notifications' # notifications
          => \A i \in SamplesOf(device) :
                (\A j \in SamplesOf(device) : j <= i)
                    => Zone(sightings[i].rssi) # Zone(rssi)]_vars

\* C24: a reading above RSSI_CLAIM is in the Claim zone, any other reading
\* above RSSI_NEAR is in the Near zone, and the rest is Idle.  An Idle
\* reading notifies nothing; a Claim reading notifies CLAIM or, while the
\* claim cooldown runs, nothing (never NEAR); a Near reading notifies NEAR
\* or nothing.
C24_OrderedThresholds ==
    [][\A rssi \in RssiValues :
          onResult(rssi)
              => \/ notifications' = notifications
                 \/ /\ Zone(rssi) = "CLAIM"
                    /\ canSendClaim(Stamps(eventCooldowns, "EVENT_123"))
                    /\ Notifies("CLAIM", "EVENT_123")
                 \/ /\ Zone(rssi) = "NEAR"
                    /\ Notifies("NEAR", "EVENT_123")]_vars

\* The scan runs with a phone connected, the last notification is a CLAIM
\* whose cooldown runs, and a NEAR could be sent.
C24_Witness ==
    /\ phoneConnected
    /\ loopPc = "scan"
    /\ notifications # <<>>
    /\ notifications[Len(notifications)].zone = "CLAIM"
    /\ ~canSendClaim(Stamps(eventCooldowns, "EVENT_123"))
    /\ canSendNear(Stamps(eventCooldowns, "EVENT_123"))

\* What the sample s notifies when the time stamps of its Business Orb are
\* those of `cooldown`: onResult at the time of the sample.
AloneZone(cooldown, s) ==
    LET ms == s.at % ULong
    IN  IF /\ s.rssi > RSSI_CLAIM
           /\ (ms - cooldown.lastClaimNotify) % ULong
                  > Units(CLAIM_COOLDOWN_MS)
          THEN "CLAIM"
        ELSE IF /\ s.rssi <= RSSI_CLAIM /\ s.rssi > RSSI_NEAR
                /\ (ms - cooldown.lastNearNotify) % ULong
                       > Units(NEAR_COOLDOWN_MS)
          THEN "NEAR"
        ELSE "IDLE"

\* The time stamps after the sample.
AloneStep(cooldown, s) ==
    LET ms == s.at % ULong
    IN  CASE AloneZone(cooldown, s) = "CLAIM" ->
                 [cooldown EXCEPT !.lastClaimNotify = ms,
                                  !.lastNearNotify = ms]
          [] AloneZone(cooldown, s) = "NEAR" ->
                 [cooldown EXCEPT !.lastNearNotify = ms]
          [] OTHER -> cooldown

\* The time stamps of a Business Orb whose first n recorded samples are
\* processed with no sample of another Business Orb in between.
RECURSIVE Alone(_, _)
Alone(device, n) ==
    IF n = 0 THEN FreshCooldown("EVENT_123")
    ELSE IF sightings[n].device = device
      THEN AloneStep(Alone(device, n - 1), sightings[n])
    ELSE Alone(device, n - 1)

\* C27: a sample of a Business Orb notifies what it would notify if the
\* samples of that Business Orb were the only ones processed: the samples
\* of another Business Orb change nothing for it.
C27_PeerIsolation ==
    [][\A device \in Devices, rssi \in ZoneRssi :
          Sampled(Sighting(device, rssi))
              => LET zone == AloneZone(Alone(device, Len(sightings)),
                                       Sighting(device, rssi))
                 IN  IF zone = "IDLE"
                       THEN notifications' = notifications
                       ELSE Notifies(zone, "EVENT_123")]_vars

----------------------------------------------------------------------------
(* Properties of findOrCreateCooldown *)

\* C25: whatever the event ids of the calls and their order, the array
\* never holds more than MAX_TRACKED_EVENTS entries and never two entries
\* of one event id.
C25_BoundedTable ==
    /\ trackedEventCount <= MAX_TRACKED_EVENTS
    /\ \A i, j \in 1..trackedEventCount :
          eventCooldowns[i].eventId = eventCooldowns[j].eventId => i = j

\* The array is full and an entry has been overwritten by an event id that
\* came when there was no room.
C25_Witness ==
    /\ trackedEventCount = MAX_TRACKED_EVENTS
    /\ PeerIds[MAX_TRACKED_EVENTS + 2] \in Tracked(eventCooldowns)

\* When the entry last notified.
LastActivity(cooldown) ==
    IF cooldown.lastNearNotify > cooldown.lastClaimNotify
      THEN cooldown.lastNearNotify
      ELSE cooldown.lastClaimNotify

----------------------------------------------------------------------------
(* Properties of checkEventEligibility *)

\* Process p has received an answer in this step.
Answered(p) == eligibility[p] = NoResult /\ eligibility'[p] # NoResult

\* C28: checkEventEligibility changes no user document and no transaction
\* record, and answers eligible: false whenever an earn record of the user
\* and the event exists; awardPoints makes its own check, so that no user
\* has two earn records of one event even when both callers were told
\* eligible: true.
C28_AdvisoryPreCheck ==
    /\ [](\A u \in Users, e \in CheckEvents :
             Cardinality(ExistingTx(u, e)) <= 1)
    /\ [][\A p \in Procs :
            Answered(p)
                => /\ UNCHANGED <<users, transactions, businesses>>
                   /\ LET asked == eligibility'[p]
                      IN  /\ asked.auth # None
                          /\ ExistingTx(asked.userId, asked.eventId) # {}
                          => /\ asked.answer.status = "ok"
                             /\ ~asked.answer.data.eligible]_vars

\* Two callers were told eligible: true for the same user and event; one
\* award has been applied and the other call rejected with already-exists.
C28_Witness ==
    \E p, q \in Procs :
        /\ p # q
        /\ SawEligible(p) /\ SawEligible(q)
        /\ eligibility[p].userId = eligibility[q].userId
        /\ eligibility[p].eventId = eligibility[q].eventId
        /\ result[p].status = "ok"
        /\ result[q].status = "error"
        /\ result[q].code = "already-exists"

----------------------------------------------------------------------------
(* Properties of the settlements for a user without a document *)

\* The call of process p arrives in this step.
Arrives(p) == pc[p] = "idle" /\ pc'[p] # "idle"

EarnOps == {"awardPoints", "claimPoints"}

\* C29: an earn (awardPoints of the cloud, claimPoints) for a user id that
\* has no document is not rejected: its transaction is ready to commit,
\* and the commit creates the document with a wallet.
C29_LazyWallet ==
    [][\A p \in Procs :
          /\ Arrives(p) /\ call'[p].op \in EarnOps
             /\ ~Exists(users[call'[p].userId])
             => pc'[p] \in {"aw_commit", "cp_commit"}
          /\ pc[p] \in {"aw_commit", "cp_commit"}
             /\ ~Exists(users[call[p].userId])
             /\ users' # users
             => /\ Exists(users'[call[p].userId])
                /\ Has(users'[call[p].userId], "pointsWallet")]_vars

----------------------------------------------------------------------------
(* Properties of the spends and the reads for a user without a document *)

SpendOps == {"redeemReward", "redeemDeal"}

QueryOps == {"getUserBalance", "getWallet", "calculateBuyingPower"}

\* The caller is told that the user was not found.
ReportsNotFound(r) ==
    /\ r.status = "error"
    /\ r.message \in {"User not found", "User account not found"}

\* C30: a spend or a balance query for a user id that has no document
\* reports a user-not-found error to the caller, and the failed spend
\* writes no user document and no record.
C30_NoWalletRejected ==
    [][\A p \in Procs :
          Arrives(p) /\ call'[p].op \in SpendOps \cup QueryOps
          /\ ~ Exists(users[call'[p].userId])
          => /\ pc'[p] = "done"
             /\ ReportsNotFound(result'[p])
             /\ users' = users
             /\ transactions' = transactions]_vars

----------------------------------------------------------------------------
(* Properties of the transactions collection *)

\* C31: the audit log is append-only: every step leaves the records that
\* exist where they are and as they are, and adds at most new ones after
\* them.
C31_AppendOnly ==
    [][/\ Len(transactions') >= Len(transactions)
       /\ SubSeq(transactions', 1, Len(transactions)) = transactions]_vars

\* Records of an earn and of a spend exist, the older one followed by
\* newer ones.
C31_Witness ==
    /\ Len(transactions) >= 3
    /\ \E i, j \in 1..Len(transactions) :
          i < j /\ transactions[i].type = "earn"
                /\ transactions[j].type = "spend"

----------------------------------------------------------------------------
(* Properties of the statistics of the businesses collection *)

\* The statistics document of organization o, empty when there is none.
Business(o) == IF Has(businesses, o) THEN businesses[o] ELSE EmptyObj

\* What record r says was spent at, and handed out by, organization o.
SpentAtOrg(r, o) ==
    IF r.type = "spend" /\ r.orgId = o THEN RecordCost(r) ELSE 0

EarnedAtOrg(r, o) ==
    IF r.type # "earn" THEN 0
    ELSE IF Has(r, "orgId") /\ r.orgId = o
      THEN (IF Has(r, "amount") THEN r.amount ELSE r.pointsEarned)
    ELSE IF Has(r, "hostOrgId") /\ r.hostOrgId = o THEN r.pointsEarned
    ELSE 0

RECURSIVE RedeemedUpTo(_, _)
RedeemedUpTo(o, n) ==
    IF n = 0 THEN 0
    ELSE RedeemedUpTo(o, n - 1) + SpentAtOrg(transactions[n], o)

RECURSIVE DistributedUpTo(_, _)
DistributedUpTo(o, n) ==
    IF n = 0 THEN 0
    ELSE DistributedUpTo(o, n - 1) + EarnedAtOrg(transactions[n], o)

RedemptionsAt(o) ==
    Cardinality({i \in DOMAIN transactions :
                    transactions[i].type = "spend"
                    /\ transactions[i].orgId = o})

\* C32 as claimed: in every state the statistics of a business equal what
\* the records of the transactions collection add up to: the points and
\* the number of its spend records, and the points of its earn records.
C32_NoDrift ==
    \A o \in Orgs \cup {"universal"} :
        /\ OrZero(Business(o), "totalPointsRedeemed")
             = RedeemedUpTo(o, Len(transactions))
        /\ OrZero(Business(o), "redemptionCount") = RedemptionsAt(o)
        /\ OrZero(Business(o), "totalPointsDistributed")
             = DistributedUpTo(o, Len(transactions))

----------------------------------------------------------------------------
(* Properties of the settle calls under fair storage *)

\* C33: every awardPoints / redeemReward call that has arrived eventually
\* finishes, with its result or with an error that has a code and a
\* message, whatever other calls for the same user run beside it.
C33_SettleFinishes ==
    \A p \in Procs :
        (pc[p] # "idle")
          ~> (/\ pc[p] = "done"
              /\ \/ result[p].status = "ok"
                 \/ /\ result[p].status = "error"
                    /\ Has(result[p], "code") /\ Has(result[p], "message"))

\* A call that lost a conflict to a concurrent call for the same user, was
\* run again and has finished.
C33_Witness ==
    \E p \in Procs :
        /\ pc[p] = "done"
        /\ attempts[p] >= 2
        /\ call[p].op \in {"awardPoints", "redeemReward"}

----------------------------------------------------------------------------
(* Properties of the two shapes of the wallet *)

\* getBuyingPower(targetOrgId) of useWallet on the wallet of the snapshot:
\* state.wallet[targetOrgId] || 0
getBuyingPower(userDoc, targetOrgId) ==
    OrZero(WalletOrEmpty(userDoc), targetOrgId)

\* In this step the wallet transaction of the earn call of p commits.
Credits(p) ==
    \/ pc[p] = "aw_commit" /\ pc'[p] = "done" /\ result'[p].status = "ok"
    \/ pc[p] = "cp_commit" /\ pc'[p] = "cp_addDoc"

\* The organization the earn call of p credits, and the points it credits.
CreditedOrg(p) ==
    IF call[p].op = "awardPoints" THEN snap[p].transactionData.destination
    ELSE getOrgFromOrbId(call[p].orbId).orgId

CreditedPoints(p) ==
    IF call[p].op = "awardPoints" THEN snap[p].transactionData.pointsEarned
    ELSE PointsToAward(call[p])

\* C34 as claimed: once an earn has credited n points to organization X,
\* calculateBuyingPower(user, X) answers with at least n (so that
\* redeemDeal(user, X, ., n) passes its balance check), and it answers what
\* getBuyingPower reads from the flat wallet.
C34_EarnIsBuyingPower ==
    [][\A p \in Procs :
          Credits(p)
          => LET power == BuyingPower(users'[call[p].userId], CreditedOrg(p))
             IN /\ power.status = "ok"
                /\ power.data >= CreditedPoints(p)
                /\ power.data
                     = getBuyingPower(users'[call[p].userId],
                                      CreditedOrg(p))]_vars

----------------------------------------------------------------------------
(* Properties of the caller of the cloud function *)

\* The call of p was made by a caller that is not signed in, or for a user
\* other than the caller.
Foreign(c) == c.op = "awardPoints" /\ (c.auth = None \/ c.auth # c.userId)

\* C35: an awardPoints call that is not authenticated, or whose caller is
\* not the user named in it, ends when it arrives, with an error, having
\* read nothing and leaving the users and the transactions collection as
\* they were; and a user document only ever changes in the commit of a call
\* that this user made for itself.
C35_OnlyOwnWallet ==
    [][/\ \A p \in Procs :
            Arrives(p) /\ Foreign(call'[p])
            => /\ pc'[p] = "done"
               /\ result'[p].status = "error"
               /\ result'[p].code \in {"unauthenticated", "permission-denied"}
               /\ rset'[p] = {}
               /\ users' = users
               /\ transactions' = transactions
       /\ \A u \in Users :
            users'[u] # users[u]
            => \E p \in Procs :
                  /\ pc[p] = "aw_commit" /\ pc'[p] = "done"
                  /\ call[p].auth = u /\ call[p].userId = u]_vars

\* Both cases have happened: a call for another user was refused, and a
\* call of a user for itself was credited.
C35_Witness ==
    \E p, q \in Procs :
        /\ pc[p] = "done" /\ call[p].auth # None /\ Foreign(call[p])
        /\ result[p].status = "error" /\ result[p].code = "permission-denied"
        /\ pc[q] = "done" /\ ~ Foreign(call[q]) /\ result[q].status = "ok"
        /\ users[call[p].userId] = SignUpDoc(IF call[p].userId = "u1"
                                               THEN "B" ELSE None)

----------------------------------------------------------------------------
(* Properties of the totals kept by the cloud function *)

\* What record r says the cloud function credited to entry d of the wallet
\* of user u.
CreditOf(r, u, d) ==
    IF r.type = "earn" /\ r.userId = u /\ Has(r, "destination")
       /\ r.destination = d
      THEN r.pointsEarned ELSE 0

RECURSIVE CreditedUpTo(_, _, _)
CreditedUpTo(u, d, n) ==
    IF n = 0 THEN 0
    ELSE CreditedUpTo(u, d, n - 1) + CreditOf(transactions[n], u, d)

\* The entries of the flat wallet of user u, added up.
RECURSIVE SumEntries(_, _)
SumEntries(w, keys) ==
    IF keys = {} THEN 0
    ELSE LET k == CHOOSE x \in keys : TRUE
         IN w[k] + SumEntries(w, keys \ {k})

WalletTotal(u) ==
    SumEntries(Wallet(u), (DOMAIN Wallet(u)) \ {"locked", "designated"})

\* C36: with the cloud function as the only writer, starting from wallets
\* that hold nothing, totalPointsEarned of every user is the sum of
\* pointsEarned over its earn records and the sum of its wallet entries,
\* and every wallet entry d is the sum of pointsEarned over its records
\* with destination d.
C36_TotalsMatchRecords ==
    \A u \in Users :
        /\ TotalEarned(u) = EarnedUpTo(u, Len(transactions))
        /\ TotalEarned(u) = WalletTotal(u)
        /\ \A d \in Orgs \cup {"universal"} :
              OrgBalance(u, d) = CreditedUpTo(u, d, Len(transactions))

\* A user has been credited for two events with different destinations.
C36_Witness ==
    \E u \in Users :
        /\ OrgBalance(u, "A") > 0
        /\ OrgBalance(u, "B") > 0
        /\ TotalEarned(u) = OrgBalance(u, "A") + OrgBalance(u, "B")

----------------------------------------------------------------------------
(* Properties of designateUniversalPoints *)

IsDesignate(c) == c.op = "designateUniversalPoints"

\* C37 as claimed: the commit of a designation takes the amount from
\* universal and adds it to designated[org], both staying at or above
\* zero, whatever integer the amount is; a designation of more than
\* universal holds is refused when it is made and changes no document.
C37_DesignateMoves ==
    [][\A p \in Procs :
          /\ (pc[p] = "dg_commit" /\ pc'[p] = "done"
              /\ result'[p].status = "ok")
             => LET c == call[p]
                    before == WalletOrDefault(users[c.userId])
                    after == WalletOrDefault(users'[c.userId])
                IN /\ after.universal = Num(before, "universal") - c.amount
                   /\ OrZero(after.designated, c.orgId)
                        = OrZero(before.designated, c.orgId) + c.amount
                   /\ after.universal >= 0
                   /\ OrZero(after.designated, c.orgId) >= 0
          /\ (Arrives(p) /\ IsDesignate(call'[p])
              /\ Exists(users[call'[p].userId])
              /\ JsLess(Num(WalletOrDefault(users[call'[p].userId]),
                            "universal"),
                        call'[p].amount))
             => /\ pc'[p] = "done"
                /\ result'[p].status = "error"
                /\ users' = users]_vars

----------------------------------------------------------------------------
(* Properties of the standalone user device *)

\* C38: userPoints changes only in notifyCallback, on a message of the
\* ultra-close zone that carries POINTS, while connected and with no
\* adjustment made yet in this connection; once one is made (pointAwarded)
\* it stays made until the connection has dropped, and a new connection
\* starts with none made; userPoints is never below zero.
C38_OncePerConnection ==
    /\ [](userPoints >= 0)
    /\ [][/\ userPoints' # userPoints
             => /\ linked
                /\ Contains(notice, "ULTRA_CLOSE_PROXIMITY")
                /\ Contains(notice, "POINTS:")
                /\ ~ pointAwarded
                /\ pointAwarded'
          /\ (pointAwarded /\ linked') => (pointAwarded' /\ sessions' = sessions)
          /\ (sessions' # sessions) => ~ pointAwarded']_vars

\* In its second connection the device has been adjusted a second time and
\* the company device sends it points again.
C38_Witness ==
    /\ sessions = 2
    /\ linked
    /\ pointAwarded
    /\ userPoints = 10
    /\ Contains(notice, "POINTS:")

----------------------------------------------------------------------------
(* Properties of the hook useOrbConnection *)

\* C39 as claimed: once disconnect() has completed, and until connect() or
\* reconnect() is called, no timer is armed and no connection attempt is
\* started; and there is never more than one connection attempt and never
\* more than one armed timer.
C39_QuietAfterDisconnect ==
    /\ [](released => timers = {})
    /\ [](connecting <= 1 /\ Cardinality(timers) <= 1)
    /\ [][(released /\ released') => connecting' <= connecting]_vars

====
